---- MODULE Spec2Model ----
(***************************************************************************)
(* Credit-approval backend (django_backend/credit_system).                 *)
(*                                                                         *)
(* Representation of the program's values:                                 *)
(*   money      integer number of hundredths (a Decimal with 2 places)     *)
(*   rate       integer number of hundredths of a percent (12.00 -> 1200)  *)
(*   date       <<year, month, day>>                                       *)
(*   EMI        a rational <<n, d>> of hundredths, d > 0, in lowest terms: *)
(*              calculate_emi's zero-rate branch returns principal/tenure  *)
(*              unquantized, every other branch a multiple of 0.01 (d = 1) *)
(* Decimal arithmetic is carried out exactly on rationals; the 28-digit    *)
(* context precision of Python's decimal module is not modelled.           *)
(***************************************************************************)
EXTENDS Integers, Sequences, FiniteSets, TLC

VARIABLES
    customers,   \* Customer table: customer_id -> row
    loans,       \* Loan table: sequence of rows, loan_id = position
    today,       \* timezone.now().date()
    pc,          \* per worker: where its create_loan request stands
    req,         \* per worker: the validated request data
    local,       \* per worker: the Customer object read by get_object_or_404, until the handler returns
    dec,         \* per worker: the tuple returned by check_loan_approval
    resp,        \* per worker: the HTTP response of its last request
    served,      \* number of requests taken up so far
    seed,        \* the tables as they were initially (never changes)
    call,        \* function under test: its arguments
    ret          \* function under test: its result

vars == <<customers, loans, today, pc, req, local, dec, resp, served, seed, call, ret>>

----------------------------------------------------------------------------
(* Integers and rationals *)

Abs(x) == IF x < 0 THEN -x ELSE x

Min(a, b) == IF a <= b THEN a ELSE b

Max(a, b) == IF a >= b THEN a ELSE b

RECURSIVE GCD(_, _)
GCD(a, b) == IF b = 0 THEN a ELSE GCD(b, a % b)

\* n/d (d # 0) in lowest terms with a positive denominator
Rat(n, d) ==
    LET g == GCD(Abs(n), Abs(d))
        s == IF d < 0 THEN -1 ELSE 1
    IN  <<(s * n) \div g, (s * d) \div g>>

RatInt(i) == <<i, 1>>

RatAdd(p, q) == Rat(p[1] * q[2] + q[1] * p[2], p[2] * q[2])

RatSub(p, q) == Rat(p[1] * q[2] - q[1] * p[2], p[2] * q[2])

RatGT(p, q) == p[1] * q[2] > q[1] * p[2]

\* Python int(Decimal): truncation towards zero
RatTrunc(p) == IF p[1] >= 0 THEN p[1] \div p[2] ELSE -((-p[1]) \div p[2])

\* Decimal.quantize(Decimal('0.01'), rounding=ROUND_HALF_UP) of p hundredths:
\* nearest integer, ties away from zero
QuantizeHalfUp(p) ==
    LET q == (2 * Abs(p[1]) + p[2]) \div (2 * p[2])
    IN  IF p[1] >= 0 THEN q ELSE -q

\* quantize with ROUND_HALF_EVEN: nearest integer, ties to the even one
QuantizeHalfEven(p) ==
    LET a == Abs(p[1])
        f == a \div p[2]
        r == a % p[2]
        q == IF 2 * r > p[2] THEN f + 1
             ELSE IF 2 * r < p[2] THEN f
             ELSE IF f % 2 = 0 THEN f ELSE f + 1
    IN  IF p[1] >= 0 THEN q ELSE -q

----------------------------------------------------------------------------
(* Decimal values beyond the width of the integers: a natural number is the  *)
(* sequence of its base-10000 digits, least significant first, without       *)
(* leading zeros (<<>> is 0); an integer is a sign and such a magnitude.     *)

RECURSIVE NatOf(_)
NatOf(n) == IF n = 0 THEN <<>> ELSE <<n % 10000>> \o NatOf(n \div 10000)

\* x without its leading zeros
RECURSIVE NatNorm(_)
NatNorm(x) ==
    IF x = <<>> THEN <<>>
    ELSE IF x[Len(x)] = 0 THEN NatNorm(SubSeq(x, 1, Len(x) - 1)) ELSE x

\* x + y + c, digit by digit with a carry
RECURSIVE NatAddC(_, _, _)
NatAddC(x, y, c) ==
    IF x = <<>> /\ y = <<>> THEN (IF c = 0 THEN <<>> ELSE <<c>>)
    ELSE LET s == (IF x = <<>> THEN 0 ELSE Head(x)) + (IF y = <<>> THEN 0 ELSE Head(y)) + c
         IN  <<s % 10000>> \o NatAddC(IF x = <<>> THEN <<>> ELSE Tail(x),
                                      IF y = <<>> THEN <<>> ELSE Tail(y), s \div 10000)

NatAdd(x, y) == NatAddC(x, y, 0)

\* x - y - c for x >= y + c, digit by digit with a borrow
RECURSIVE NatSubB(_, _, _)
NatSubB(x, y, c) ==
    IF x = <<>> THEN <<>>
    ELSE LET s == Head(x) - (IF y = <<>> THEN 0 ELSE Head(y)) - c
         IN  <<(s + 10000) % 10000>> \o
             NatSubB(Tail(x), IF y = <<>> THEN <<>> ELSE Tail(y), IF s < 0 THEN 1 ELSE 0)

NatSub(x, y) == NatNorm(NatSubB(x, y, 0))

\* x * k + c for a single digit k
RECURSIVE NatMulDigit(_, _, _)
NatMulDigit(x, k, c) ==
    IF x = <<>> THEN (IF c = 0 THEN <<>> ELSE <<c>>)
    ELSE LET s == Head(x) * k + c
         IN  <<s % 10000>> \o NatMulDigit(Tail(x), k, s \div 10000)

\* x * 10000^n
NatShift(x, n) == IF x = <<>> THEN <<>> ELSE [i \in 1..n |-> 0] \o x

\* x * y, the digits of y taken half by half
RECURSIVE NatMul(_, _)
NatMul(x, y) ==
    IF Len(y) = 0 THEN <<>>
    ELSE IF Len(y) = 1 THEN NatNorm(NatMulDigit(x, y[1], 0))
    ELSE LET h == Len(y) \div 2
         IN  NatAdd(NatMul(x, SubSeq(y, 1, h)),
                    NatShift(NatMul(x, SubSeq(y, h + 1, Len(y))), h))

\* x >= y
RECURSIVE NatGE(_, _)
NatGE(x, y) ==
    IF Len(x) # Len(y) THEN Len(x) > Len(y)
    ELSE IF x = <<>> THEN TRUE
    ELSE IF x[Len(x)] # y[Len(y)] THEN x[Len(x)] > y[Len(y)]
    ELSE NatGE(SubSeq(x, 1, Len(x) - 1), SubSeq(y, 1, Len(y) - 1))

\* the largest q in lo..hi with q * y <= x, where lo * y <= x
RECURSIVE NatDivSearch(_, _, _, _)
NatDivSearch(x, y, lo, hi) ==
    IF lo = hi THEN lo
    ELSE LET mid == hi - (hi - lo) \div 2
         IN  IF NatGE(x, NatMul(NatOf(mid), y))
             THEN NatDivSearch(x, y, mid, hi)
             ELSE NatDivSearch(x, y, lo, mid - 1)

\* the integer quotient x \div y (y # 0), for a quotient within the integers
NatDiv(x, y) == NatDivSearch(x, y, 0, 2147483647)

Sgn(i) == IF i > 0 THEN 1 ELSE IF i < 0 THEN -1 ELSE 0

BigInt(i) == [s |-> Sgn(i), m |-> NatOf(Abs(i))]

BigMul(p, q) == [s |-> p.s * q.s, m |-> NatMul(p.m, q.m)]

BigSub(p, q) ==
    IF q.s = 0 THEN p
    ELSE IF p.s = 0 THEN [s |-> -q.s, m |-> q.m]
    ELSE IF p.s # q.s THEN [s |-> p.s, m |-> NatAdd(p.m, q.m)]
    ELSE IF p.m = q.m THEN [s |-> 0, m |-> <<>>]
    ELSE IF NatGE(p.m, q.m) THEN [s |-> p.s, m |-> NatSub(p.m, q.m)]
    ELSE [s |-> -p.s, m |-> NatSub(q.m, p.m)]

\* p ** n for n >= 0, by squaring
RECURSIVE BigPow(_, _)
BigPow(p, n) ==
    IF n = 0 THEN BigInt(1)
    ELSE LET h == BigPow(p, n \div 2)
             sq == BigMul(h, h)
         IN  IF n % 2 = 0 THEN sq ELSE BigMul(sq, p)

\* (num / den).quantize(Decimal('1'), rounding=ROUND_HALF_UP) for den # 0
BigQuantizeHalfUp(num, den) ==
    num.s * den.s * NatDiv(NatAdd(NatAdd(num.m, num.m), den.m), NatAdd(den.m, den.m))

----------------------------------------------------------------------------
(* Dates *)

IsLeap(y) == (y % 4 = 0 /\ y % 100 # 0) \/ y % 400 = 0

DaysInMonth(y, m) ==
    IF m = 2 THEN (IF IsLeap(y) THEN 29 ELSE 28)
    ELSE IF m \in {4, 6, 9, 11} THEN 30 ELSE 31

DateGT(a, b) ==
    \/ a[1] > b[1]
    \/ a[1] = b[1] /\ a[2] > b[2]
    \/ a[1] = b[1] /\ a[2] = b[2] /\ a[3] > b[3]

\* date.replace(day=1)
FirstOfMonth(dt) == <<dt[1], dt[2], 1>>

\* date - timedelta(days=1)
PrevDay(dt) ==
    IF dt[3] > 1 THEN <<dt[1], dt[2], dt[3] - 1>>
    ELSE IF dt[2] > 1 THEN <<dt[1], dt[2] - 1, DaysInMonth(dt[1], dt[2] - 1)>>
    ELSE <<dt[1] - 1, 12, 31>>

\* date + timedelta(days=n)
RECURSIVE AddDays(_, _)
AddDays(dt, n) ==
    IF n = 0 THEN dt
    ELSE IF n > 0 THEN
        LET rest == DaysInMonth(dt[1], dt[2]) - dt[3]
        IN  IF n <= rest THEN <<dt[1], dt[2], dt[3] + n>>
            ELSE AddDays(IF dt[2] = 12 THEN <<dt[1] + 1, 1, 1>>
                         ELSE <<dt[1], dt[2] + 1, 1>>, n - rest - 1)
    ELSE IF dt[3] + n >= 1 THEN <<dt[1], dt[2], dt[3] + n>>
         ELSE AddDays(PrevDay(FirstOfMonth(dt)), n + dt[3])

----------------------------------------------------------------------------
(* utils.py: calculate_emi *)

Raised == [ok |-> FALSE, val |-> <<0, 1>>]

Returned(v) == [ok |-> TRUE, val |-> v]

RECURSIVE Pow(_, _)
Pow(b, n) == IF n = 0 THEN 1 ELSE b * Pow(b, n - 1)

\* min(r * x, cap + 1) for x >= 1, without leaving the integers
MulCap(r, x, cap) == IF r > cap \div x THEN cap + 1 ELSE r * x

\* min(x^n, cap + 1)
RECURSIVE PowCap(_, _, _)
PowCap(x, n, cap) == IF n = 0 THEN 1 ELSE MulCap(PowCap(x, n - 1, cap), x, cap)

\* (numerator / denominator).quantize(0.01, ROUND_HALF_UP) of lines 26-29 for
\* the monthly rate a/b and the tenure t: with (1 + a/b)^t = U/D it is
\* principal*a*U / (b*(U - D)).  A zero denominator raises.
\* Here every product stays within the integers.
EmiQuotientNarrow(principal, a, b, t) ==
    LET U == IF t >= 0 THEN Pow(a + b, t) ELSE Pow(b, -t)
        D == IF t >= 0 THEN Pow(b, t) ELSE Pow(a + b, -t)
    IN  IF U - D = 0 THEN Raised
        ELSE Returned(RatInt(QuantizeHalfUp(Rat(principal * a * U, b * (U - D)))))

\* the same quotient on digit sequences
EmiQuotientWide(principal, a, b, t) ==
    LET U == IF t >= 0 THEN BigPow(BigInt(a + b), t) ELSE BigPow(BigInt(b), -t)
        D == IF t >= 0 THEN BigPow(BigInt(b), t) ELSE BigPow(BigInt(a + b), -t)
        numerator == BigMul(BigMul(BigInt(principal), BigInt(a)), U)
        denominator == BigMul(BigInt(b), BigSub(U, D))
    IN  IF denominator.s = 0 THEN Raised
        ELSE Returned(RatInt(BigQuantizeHalfUp(numerator, denominator)))

PowFits(x, n, cap) == PowCap(x, n, cap) <= cap

\* numerator, denominator and twice the numerator plus the denominator are
\* below 2^31
EmiFits(principal, a, b, t) ==
    /\ Abs(principal) <= 30000 /\ Abs(a) <= 30000 /\ b <= 30000
    /\ PowFits(Max(Max(Abs(a + b), b), 1), Abs(t), 500000000 \div Max(Abs(principal * a), 2 * b))

EmiQuotient(principal, a, b, t) ==
    IF EmiFits(principal, a, b, t)
    THEN EmiQuotientNarrow(principal, a, b, t)
    ELSE EmiQuotientWide(principal, a, b, t)

\* mutant: the annual rate is taken as the monthly rate
calculate_emi_annual_as_monthly(principal, annual_interest_rate, tenure_months) ==
    IF annual_interest_rate = 0 THEN
        IF tenure_months = 0 THEN Raised
        ELSE Returned(Rat(principal, tenure_months))
    ELSE
        LET m == Rat(annual_interest_rate, 100 * 100)
            a == m[1]
            b == m[2]
            t == tenure_months
        IN  EmiQuotient(principal, a, b, t)

\* mutant: the zero-rate quotient is quantized to two places like the others
calculate_emi_zero_quantized(principal, annual_interest_rate, tenure_months) ==
    IF annual_interest_rate = 0 THEN
        IF tenure_months = 0 THEN Raised
        ELSE Returned(RatInt(QuantizeHalfUp(Rat(principal, tenure_months))))
    ELSE
        LET m == Rat(annual_interest_rate, 100 * 100 * 12)
            a == m[1]
            b == m[2]
            t == tenure_months
        IN  EmiQuotient(principal, a, b, t)

\* principal in hundredths, annual_interest_rate in hundredths of a percent.
\* A division by zero (tenure_months = 0) raises.
calculate_emi(principal, annual_interest_rate, tenure_months) ==
    IF annual_interest_rate = 0 THEN
        IF tenure_months = 0 THEN Raised
        ELSE Returned(Rat(principal, tenure_months))
    ELSE
        LET m == Rat(annual_interest_rate, 100 * 100 * 12)
            a == m[1]
            b == m[2]
            t == tenure_months
        IN  IF a = 0 THEN
                IF t = 0 THEN Raised
                ELSE Returned(RatInt(QuantizeHalfUp(Rat(principal, t))))
            ELSE EmiQuotient(principal, a, b, t)

----------------------------------------------------------------------------
(* utils.py: CreditScoreCalculator.calculate_credit_score *)

RECURSIVE SeqSum(_)
SeqSum(s) == IF s = <<>> THEN 0 ELSE Head(s) + SeqSum(Tail(s))

\* loan.status == 'APPROVED' and loan.end_date > timezone.now().date()
IsActive(loan, now) == loan.status = "APPROVED" /\ DateGT(loan.end_date, now)

\* mutant: the difference of the months without that of the years
months_passed_since_start_in_year(loan, now) == now[2] - loan.start_date[2]

months_passed_since_start(loan, now) ==
    (now[1] - loan.start_date[1]) * 12 + (now[2] - loan.start_date[2])

expected_emis(loan, now) ==
    IF IsActive(loan, now)
    THEN Min(loan.tenure, months_passed_since_start(loan, now))
    ELSE loan.tenure

total_expected_emis(ls, now) ==
    SeqSum([i \in 1..Len(ls) |-> expected_emis(ls[i], now)])

total_emis_paid_on_time(ls) ==
    SeqSum([i \in 1..Len(ls) |-> ls[i].emis_paid_on_time])

total_approved_volume(ls) ==
    SeqSum([i \in 1..Len(ls) |-> ls[i].loan_amount])

current_year_loans_count(ls, now) ==
    Cardinality({i \in 1..Len(ls) : ls[i].start_date[1] = now[1]})

\* ---- decimal.Decimal under the default context: 28 significant digits,
\* ---- ROUND_HALF_EVEN.  A value is (-1)^neg * m * 10^e, the coefficient m
\* ---- a natural number in base-10000 digits as above

DecimalPrec == 28

\* the number of decimal digits of one base-10000 digit
DigitLen(d) ==
    IF d >= 1000 THEN 4 ELSE IF d >= 100 THEN 3 ELSE IF d >= 10 THEN 2
    ELSE IF d >= 1 THEN 1 ELSE 0

\* the number of decimal digits of x
NatLen(x) == IF x = <<>> THEN 0 ELSE 4 * (Len(x) - 1) + DigitLen(x[Len(x)])

\* 10^k for k in 0..3
Pow10(k) == IF k = 0 THEN 1 ELSE IF k = 1 THEN 10 ELSE IF k = 2 THEN 100 ELSE 1000

\* x * 10^k
NatTimesPow10(x, k) == NatShift(NatMulDigit(x, Pow10(k % 4), 0), k \div 4)

\* x \div t for a divisor t of 10000
NatDivSmall(x, t) ==
    NatNorm([i \in 1..Len(x) |->
                x[i] \div t
                + (IF i < Len(x) THEN (x[i + 1] % t) * (10000 \div t) ELSE 0)])

\* x \div 10^k
NatDivPow10(x, k) ==
    IF k \div 4 >= Len(x) THEN <<>>
    ELSE NatDivSmall(SubSeq(x, k \div 4 + 1, Len(x)), Pow10(k % 4))

\* x % 10^k
NatModPow10(x, k) ==
    IF k \div 4 >= Len(x) THEN x
    ELSE NatNorm(SubSeq(x, 1, k \div 4) \o <<x[k \div 4 + 1] % Pow10(k % 4)>>)

Decimal(neg, m, e) == [neg |-> neg /\ m # <<>>, m |-> m, e |-> e]

\* Decimal(i) of an int; Decimal('0.8') is DecScaled(8, -1)
DecScaled(i, e) == Decimal(i < 0, NatOf(Abs(i)), e)

DecInt(i) == DecScaled(i, 0)

\* the coefficient of x written with the exponent e <= x.e
DecCoefficientAt(x, e) == NatTimesPow10(x.m, x.e - e)

\* the digits that were kept, after a carry may have added one
DecRounded(neg, m, e) ==
    IF NatLen(m) > DecimalPrec THEN Decimal(neg, NatDivPow10(m, 1), e + 1)
    ELSE Decimal(neg, m, e)

\* the digits kept are q and the part dropped is r, to compare with
\* half a unit of q: to the nearest, ties to the even digit; more is true
\* when digits beyond r were not zero
DecRoundAt(neg, q, r, half, e, more) ==
    IF \/ r # half /\ NatGE(r, half)
       \/ r = half /\ (more \/ q[1] % 2 = 1)
    THEN DecRounded(neg, NatAdd(q, <<1>>), e)
    ELSE Decimal(neg, q, e)

\* x without its k lowest decimal digits, rounded
DecDrop(x, k, more) ==
    DecRoundAt(x.neg, NatDivPow10(x.m, k), NatModPow10(x.m, k),
               NatTimesPow10(<<5>>, k - 1), x.e + k, more)

\* the context's rounding of an exact result: the digits beyond the
\* precision are dropped
DecRound(x) ==
    IF NatLen(x.m) <= DecimalPrec THEN x
    ELSE DecDrop(x, NatLen(x.m) - DecimalPrec, FALSE)

DecNeg(x) == Decimal(~x.neg, x.m, x.e)

\* the sum of two coefficients a and b written with the same exponent
DecSumAt(xneg, a, yneg, b, e) ==
    IF xneg = yneg THEN Decimal(xneg, NatAdd(a, b), e)
    ELSE IF NatGE(a, b) THEN Decimal(xneg, NatSub(a, b), e)
    ELSE Decimal(yneg, NatSub(b, a), e)

\* x + y before the rounding
DecSum(x, y) ==
    DecSumAt(x.neg, DecCoefficientAt(x, Min(x.e, y.e)),
             y.neg, DecCoefficientAt(y, Min(x.e, y.e)), Min(x.e, y.e))

\* x - y
DecSub(x, y) == DecRound(DecSum(x, DecNeg(y)))

\* x * Decimal(k) for an int k > 0
DecMul(x, k) == DecRound(Decimal(x.neg, NatMulDigit(x.m, k, 0), x.e))

\* x < y
DecLT(x, y) == DecSum(x, DecNeg(y)).neg

\* one step of the long division: <<digit, remainder>> of 10 * rem by q,
\* by ten additions that stay below 2 * q
RECURSIVE DivDigit(_, _, _, _, _)
DivDigit(rem, q, k, acc, d) ==
    IF k = 0 THEN <<d, acc>>
    ELSE IF acc + rem >= q THEN DivDigit(rem, q, k - 1, acc + rem - q, d + 1)
    ELSE DivDigit(rem, q, k - 1, acc + rem, d)

\* <<digit, remainder>> of 10 * rem by q
DivStep(rem, q) ==
    IF rem <= 200000000 THEN <<(10 * rem) \div q, (10 * rem) % q>>
    ELSE DivDigit(rem, q, 10, 0, 0)

\* n steps of the long division after the digits d
RECURSIVE DivDigits(_, _, _, _)
DivDigitsNext(s, q, n, d) == DivDigits(s[2], q, n - 1, 10 * d + s[1])

DivDigits(rem, q, n, d) ==
    IF n = 0 THEN <<d, rem>> ELSE DivDigitsNext(DivStep(rem, q), q, n, d)

\* <<the next four digits, remainder>> of 10000 * rem by q
DivChunk(rem, q) ==
    IF rem <= 200000 THEN <<(10000 * rem) \div q, (10000 * rem) % q>>
    ELSE DivDigits(rem, q, 4, 0)

\* the digits of a quotient with remainder rem over q: m the digits found so
\* far, e their exponent; the division runs until it is exact or has more
\* digits than the precision
RECURSIVE LongDivision(_, _, _, _)
LongDivisionNext(s, q, m, e) ==
    LongDivision(s[2], q, IF m = <<>> /\ s[1] = 0 THEN <<>> ELSE <<s[1]>> \o m, e - 4)

LongDivision(rem, q, m, e) ==
    IF rem = 0 \/ NatLen(m) > DecimalPrec THEN [m |-> m, e |-> e, rem |-> rem]
    ELSE LongDivisionNext(DivChunk(rem, q), q, m, e)

\* the quotient as a value: rounded to the nearest, ties to even
DecQuotient(neg, r) ==
    IF NatLen(r.m) <= DecimalPrec THEN Decimal(neg, r.m, r.e)
    ELSE DecDrop(Decimal(neg, r.m, r.e), NatLen(r.m) - DecimalPrec, r.rem # 0)

\* Decimal(p) / Decimal(q) for q > 0; the quotient of two values with the
\* same exponent is the quotient of their coefficients
DecDiv(p, q) ==
    DecQuotient(p < 0, LongDivision(Abs(p) % q, q, NatOf(Abs(p) \div q), 0))

\* int(x): truncation towards zero; beyond eight digits only the sign is
\* kept, which is all the clamp of the score looks at
DecTruncDigits(neg, m) ==
    IF Len(m) > 2 THEN (IF neg THEN -1000000000 ELSE 1000000000)
    ELSE (IF neg THEN -1 ELSE 1)
         * ((IF Len(m) >= 1 THEN m[1] ELSE 0) + (IF Len(m) = 2 THEN 10000 * m[2] ELSE 0))

DecTrunc(x) ==
    DecTruncDigits(x.neg, IF x.e >= 0 THEN NatTimesPow10(x.m, x.e)
                          ELSE NatDivPow10(x.m, -x.e))

\* what the on-time ratio takes off the score: (1 - on_time_ratio) * 30 when
\* the ratio is below 0.9
OnTimeDeduction(on_time_ratio) ==
    IF DecLT(on_time_ratio, DecScaled(9, -1))
    THEN DecMul(DecSub(DecInt(1), on_time_ratio), 30)
    ELSE DecInt(0)

\* if total_expected_emis > 0: on_time_ratio = paid / expected
OnTimePenalty(ls, now) ==
    IF total_expected_emis(ls, now) > 0
    THEN OnTimeDeduction(DecDiv(total_emis_paid_on_time(ls), total_expected_emis(ls, now)))
    ELSE DecInt(0)

\* mutant: 3 per loan above or below five, without the test
LoanCountPenalty_unguarded(ls) == (Len(ls) - 5) * 3

LoanCountPenalty(ls) ==
    IF Len(ls) > 5 THEN (Len(ls) - 5) * 3 ELSE 0

CurrentYearPenalty(ls, now) ==
    IF current_year_loans_count(ls, now) > 2
    THEN (current_year_loans_count(ls, now) - 2) * 5 ELSE 0

\* what the utilization takes off the score: (utilization_ratio - 0.8) * 20
\* when the ratio is above 0.8
UtilizationDeduction(utilization_ratio) ==
    IF DecLT(DecScaled(8, -1), utilization_ratio)
    THEN DecMul(DecSub(utilization_ratio, DecScaled(8, -1)), 20)
    ELSE DecInt(0)

\* if customer.approved_limit > 0: utilization_ratio = volume / limit
UtilizationPenalty(customer, ls) ==
    IF customer.approved_limit > 0
    THEN UtilizationDeduction(DecDiv(total_approved_volume(ls), customer.approved_limit))
    ELSE DecInt(0)

\* credit_score before int() and the clamp
RawScore(customer, ls, now) ==
    DecSub(DecSub(DecSub(DecSub(DecInt(100), OnTimePenalty(ls, now)),
                         DecInt(LoanCountPenalty(ls))),
                  DecInt(CurrentYearPenalty(ls, now))),
           UtilizationPenalty(customer, ls))

\* mutant: the lower clamp is missing
ClampScore_upper_only(raw) == Min(100, DecTrunc(raw))

\* max(0, min(100, int(credit_score)))
ClampScore(raw) == Max(0, Min(100, DecTrunc(raw)))

\* mutant: the over-limit test is >= instead of >
calculate_credit_score_debt_ge(customer, ls, now, fault) ==
    IF customer.current_debt >= customer.approved_limit THEN 0
    ELSE IF fault THEN 0
    ELSE IF Len(ls) = 0 THEN 100
    ELSE ClampScore(RawScore(customer, ls, now))

\* mutant: the over-limit test is missing
calculate_credit_score_no_debt_check(customer, ls, now, fault) ==
    IF fault THEN 0
    ELSE IF Len(ls) = 0 THEN 100
    ELSE ClampScore(RawScore(customer, ls, now))

\* mutant: the except clause lets the customer pass with the full score
calculate_credit_score_except_100(customer, ls, now, fault) ==
    IF customer.current_debt > customer.approved_limit THEN 0
    ELSE IF fault THEN 100
    ELSE IF Len(ls) = 0 THEN 100
    ELSE ClampScore(RawScore(customer, ls, now))

\* ls: customer.loans.all();  fault: a query of the method raises, which its
\* except clause turns into the result 0
calculate_credit_score(customer, ls, now, fault) ==
    IF customer.current_debt > customer.approved_limit THEN 0
    ELSE IF fault THEN 0
    ELSE IF Len(ls) = 0 THEN 100
    ELSE ClampScore(RawScore(customer, ls, now))

\* a record handed to the logger
LogEvent(level, text) == [level |-> level, text |-> text]

\* what calculate_credit_score logs: logger.info on the over-limit return,
\* logger.error in the except clause
calculate_credit_score_log(customer, ls, now, fault) ==
    IF customer.current_debt > customer.approved_limit
    THEN <<LogEvent("info", "Current outstanding debt > Approved limit. Credit score = 0.")>>
    ELSE IF fault
    THEN <<LogEvent("error", "Error calculating credit score for customer")>>
    ELSE <<>>

----------------------------------------------------------------------------
(* utils.py: CreditScoreCalculator.determine_corrected_interest_rate *)

RateFloorMid == 1200

RateFloorLow == 1600

RateSentinel == 10000

\* mutant: the band boundaries belong to the upper band
determine_corrected_interest_rate_ge(credit_score, requested_rate) ==
    IF credit_score >= 50 THEN requested_rate
    ELSE IF credit_score >= 30 THEN Max(RateFloorMid, requested_rate)
    ELSE IF credit_score >= 10 THEN Max(RateFloorLow, requested_rate)
    ELSE RateSentinel

\* mutant: the two floors are exchanged
determine_corrected_interest_rate_swapped(credit_score, requested_rate) ==
    IF credit_score > 50 THEN requested_rate
    ELSE IF 30 < credit_score /\ credit_score <= 50
         THEN Max(RateFloorLow, requested_rate)
    ELSE IF 10 < credit_score /\ credit_score <= 30
         THEN Max(RateFloorMid, requested_rate)
    ELSE RateSentinel

determine_corrected_interest_rate(credit_score, requested_rate) ==
    IF credit_score > 50 THEN requested_rate
    ELSE IF 30 < credit_score /\ credit_score <= 50
         THEN Max(RateFloorMid, requested_rate)
    ELSE IF 10 < credit_score /\ credit_score <= 30
         THEN Max(RateFloorLow, requested_rate)
    ELSE RateSentinel

----------------------------------------------------------------------------
(* utils.py: CreditScoreCalculator.check_loan_approval *)

MsgEmiTooHigh ==
    [text |-> "Sum of current EMIs (including potential new loan) exceeds 50% of monthly salary.",
     args |-> <<>>]

MsgScoreTooLow == [text |-> "Credit score is too low.", args |-> <<>>]

MsgLimitExceeded(loan_amount, remaining_approved_limit) ==
    [text |-> "Requested loan amount {loan_amount} exceeds remaining approved limit {remaining_approved_limit}.",
     args |-> <<loan_amount, remaining_approved_limit>>]

MsgApproved == [text |-> "Loan approved.", args |-> <<>>]

MsgInternalError == [text |-> "Internal error during eligibility check.", args |-> <<>>]

\* customer.loans.filter(status='APPROVED', end_date__gt=timezone.now().date())
current_active_loans(ls, now) == SelectSeq(ls, LAMBDA l : IsActive(l, now))

\* .aggregate(Sum('monthly_repayment'))['monthly_repayment__sum'] or Decimal('0.00')
\* mutant: the EMIs of the running loans are left out of the check
sum_current_emis_none(ls, now) == 0

sum_current_emis(ls, now) ==
    LET act == current_active_loans(ls, now)
    IN  SeqSum([i \in 1..Len(act) |-> act[i].monthly_repayment])

\* Decimal('0.50') * customer.monthly_salary, in hundredths
HalfSalary(customer) == 50 * customer.monthly_salary

\* The result tuple, with two values the method computes on the way:
\* credit_score (its local variable) and raised (its except clause ran).
Decision(approved, message, rate, emi, score, raised) ==
    [approved |-> approved, message |-> message, interest_rate |-> rate,
     monthly_installment |-> emi, credit_score |-> score, raised |-> raised]

\* mutant: the score veto is missing
check_loan_approval_no_score_veto(customer, ls, now, loan_amount, requested_interest_rate, tenure, faults) ==
    LET credit_score == calculate_credit_score(customer, ls, now, "score" \in faults)
        rate == determine_corrected_interest_rate(credit_score, requested_interest_rate)
        emi == calculate_emi(loan_amount, rate, tenure)
        remaining == customer.approved_limit - customer.current_debt
    IN  IF ~emi.ok \/ "emis" \in faults THEN
            Decision(FALSE, MsgInternalError, requested_interest_rate, RatInt(0),
                     credit_score, TRUE)
        ELSE IF RatGT(RatAdd(RatInt(sum_current_emis(ls, now)), emi.val),
                      RatInt(HalfSalary(customer))) THEN
            Decision(FALSE, MsgEmiTooHigh, rate, emi.val, credit_score, FALSE)
        ELSE IF loan_amount > remaining THEN
            Decision(FALSE, MsgLimitExceeded(loan_amount, remaining), rate, emi.val,
                     credit_score, FALSE)
        ELSE Decision(TRUE, MsgApproved, rate, emi.val, credit_score, FALSE)

\* mutant: the score veto comes before the EMI veto
check_loan_approval_score_first(customer, ls, now, loan_amount, requested_interest_rate, tenure, faults) ==
    LET credit_score == calculate_credit_score(customer, ls, now, "score" \in faults)
        rate == determine_corrected_interest_rate(credit_score, requested_interest_rate)
        emi == calculate_emi(loan_amount, rate, tenure)
        remaining == customer.approved_limit - customer.current_debt
    IN  IF ~emi.ok \/ "emis" \in faults THEN
            Decision(FALSE, MsgInternalError, requested_interest_rate, RatInt(0),
                     credit_score, TRUE)
        ELSE IF credit_score <= 10 THEN
            Decision(FALSE, MsgScoreTooLow, rate, emi.val, credit_score, FALSE)
        ELSE IF RatGT(RatAdd(RatInt(sum_current_emis(ls, now)), emi.val),
                      RatInt(HalfSalary(customer))) THEN
            Decision(FALSE, MsgEmiTooHigh, rate, emi.val, credit_score, FALSE)
        ELSE IF loan_amount > remaining THEN
            Decision(FALSE, MsgLimitExceeded(loan_amount, remaining), rate, emi.val,
                     credit_score, FALSE)
        ELSE Decision(TRUE, MsgApproved, rate, emi.val, credit_score, FALSE)

\* mutant: the limit veto compares with approved_limit, not with what is left of it
check_loan_approval_whole_limit(customer, ls, now, loan_amount, requested_interest_rate, tenure, faults) ==
    LET credit_score == calculate_credit_score(customer, ls, now, "score" \in faults)
        rate == determine_corrected_interest_rate(credit_score, requested_interest_rate)
        emi == calculate_emi(loan_amount, rate, tenure)
        remaining == customer.approved_limit - customer.current_debt
    IN  IF ~emi.ok \/ "emis" \in faults THEN
            Decision(FALSE, MsgInternalError, requested_interest_rate, RatInt(0),
                     credit_score, TRUE)
        ELSE IF RatGT(RatAdd(RatInt(sum_current_emis(ls, now)), emi.val),
                      RatInt(HalfSalary(customer))) THEN
            Decision(FALSE, MsgEmiTooHigh, rate, emi.val, credit_score, FALSE)
        ELSE IF credit_score <= 10 THEN
            Decision(FALSE, MsgScoreTooLow, rate, emi.val, credit_score, FALSE)
        ELSE IF loan_amount > customer.approved_limit THEN
            Decision(FALSE, MsgLimitExceeded(loan_amount, remaining), rate, emi.val,
                     credit_score, FALSE)
        ELSE Decision(TRUE, MsgApproved, rate, emi.val, credit_score, FALSE)

\* mutant: the except clause returns the corrected rate
check_loan_approval_except_corrected(customer, ls, now, loan_amount, requested_interest_rate, tenure, faults) ==
    LET credit_score == calculate_credit_score(customer, ls, now, "score" \in faults)
        rate == determine_corrected_interest_rate(credit_score, requested_interest_rate)
        emi == calculate_emi(loan_amount, rate, tenure)
        remaining == customer.approved_limit - customer.current_debt
    IN  IF ~emi.ok \/ "emis" \in faults THEN
            Decision(FALSE, MsgInternalError, rate, RatInt(0), credit_score, TRUE)
        ELSE IF RatGT(RatAdd(RatInt(sum_current_emis(ls, now)), emi.val),
                      RatInt(HalfSalary(customer))) THEN
            Decision(FALSE, MsgEmiTooHigh, rate, emi.val, credit_score, FALSE)
        ELSE IF credit_score <= 10 THEN
            Decision(FALSE, MsgScoreTooLow, rate, emi.val, credit_score, FALSE)
        ELSE IF loan_amount > remaining THEN
            Decision(FALSE, MsgLimitExceeded(loan_amount, remaining), rate, emi.val,
                     credit_score, FALSE)
        ELSE Decision(TRUE, MsgApproved, rate, emi.val, credit_score, FALSE)

\* the vetoes, in the order of the method, once the credit score, the
\* corrected rate and the EMI are known
ApprovalDecision(customer, ls, now, loan_amount, requested_interest_rate, faults, credit_score, corrected_interest_rate, emi, remaining_approved_limit) ==
    IF ~emi.ok \/ "emis" \in faults THEN
        Decision(FALSE, MsgInternalError, requested_interest_rate, RatInt(0),
                 credit_score, TRUE)
    ELSE IF RatGT(RatAdd(RatInt(sum_current_emis(ls, now)), emi.val),
                  RatInt(HalfSalary(customer))) THEN
        Decision(FALSE, MsgEmiTooHigh, corrected_interest_rate, emi.val, credit_score, FALSE)
    ELSE IF credit_score <= 10 THEN
        Decision(FALSE, MsgScoreTooLow, corrected_interest_rate, emi.val, credit_score, FALSE)
    ELSE IF loan_amount > remaining_approved_limit THEN
        Decision(FALSE, MsgLimitExceeded(loan_amount, remaining_approved_limit),
                 corrected_interest_rate, emi.val, credit_score, FALSE)
    ELSE
        Decision(TRUE, MsgApproved, corrected_interest_rate, emi.val, credit_score, FALSE)

\* corrected_interest_rate and potential_monthly_installment from the score
ApprovalAtRate(customer, ls, now, loan_amount, requested_interest_rate, tenure, faults, credit_score, corrected_interest_rate) ==
    ApprovalDecision(customer, ls, now, loan_amount, requested_interest_rate, faults,
                     credit_score, corrected_interest_rate,
                     calculate_emi(loan_amount, corrected_interest_rate, tenure),
                     customer.approved_limit - customer.current_debt)

ApprovalAtScore(customer, ls, now, loan_amount, requested_interest_rate, tenure, faults, credit_score) ==
    ApprovalAtRate(customer, ls, now, loan_amount, requested_interest_rate, tenure, faults,
                   credit_score,
                   determine_corrected_interest_rate(credit_score, requested_interest_rate))

\* ls: the customer's Loan rows.  faults: the queries that raise, "score"
\* inside calculate_credit_score, "emis" the aggregate over the active loans.
check_loan_approval(customer, ls, now, loan_amount, requested_interest_rate, tenure, faults) ==
    ApprovalAtScore(customer, ls, now, loan_amount, requested_interest_rate, tenure, faults,
                    calculate_credit_score(customer, ls, now, "score" \in faults))

----------------------------------------------------------------------------
(* models.py: rows of the Customer and Loan tables *)

CustomerRow(monthly_salary, approved_limit, current_debt) ==
    [monthly_salary |-> monthly_salary, approved_limit |-> approved_limit,
     current_debt |-> current_debt]

LoanRow(customer_id, loan_amount, tenure, interest_rate, monthly_repayment, emis_paid_on_time, start_date, end_date, status) ==
    [customer_id |-> customer_id, loan_amount |-> loan_amount, tenure |-> tenure,
     interest_rate |-> interest_rate, monthly_repayment |-> monthly_repayment,
     emis_paid_on_time |-> emis_paid_on_time, start_date |-> start_date,
     end_date |-> end_date, status |-> status]

----------------------------------------------------------------------------
(* Input data: what tasks.py ingests and what requests carry *)

\* timezone.now().date()
Todays == {<<2024, 1, 31>>, <<2024, 6, 15>>}

\* a loan in good standing that ends between the two dates
LoanGood == LoanRow(1, 500, 12, 1200, 45, 7, <<2023, 6, 10>>, <<2024, 5, 31>>, "APPROVED")

\* a repaid loan of a given volume
LoanPaid(amount) == LoanRow(1, amount, 6, 1000, 10, 6, <<2022, 1, 5>>, <<2022, 6, 30>>, "PAID")

\* a running loan with a heavy installment and nothing paid
LoanHeavy == LoanRow(1, 200, 24, 1600, 150, 0, <<2023, 12, 1>>, <<2025, 11, 30>>, "APPROVED")

\* a loan that starts after today
LoanFuture == LoanRow(1, 100, 12, 1200, 9, 0, <<2025, 1, 1>>, <<2025, 12, 31>>, "APPROVED")

\* more instalments paid than the tenure
LoanOverpaid == LoanRow(1, 100, 3, 1200, 34, 20, <<2023, 1, 1>>, <<2023, 3, 31>>, "APPROVED")

\* a small loan taken this year
LoanThisYear(paid) == LoanRow(1, 50, 2, 1200, 25, paid, <<2024, 1, 2>>, <<2024, 2, 29>>, "APPROVED")

ApprovalHistories ==
    { <<>>,
      <<LoanGood>>,
      <<LoanHeavy>>,
      <<LoanPaid(3800)>>,
      <<LoanPaid(4800)>>,
      <<LoanPaid(6000)>>,
      <<LoanGood, LoanHeavy>> }

ScoreHistories ==
    ApprovalHistories \cup
    { <<LoanFuture>>,
      <<LoanOverpaid>>,
      <<LoanFuture, LoanThisYear(0)>>,
      <<LoanPaid(20000)>>,
      <<LoanThisYear(2), LoanThisYear(2), LoanThisYear(2), LoanThisYear(2)>>,
      <<LoanGood, LoanPaid(300), LoanThisYear(2), LoanThisYear(0), LoanThisYear(0),
        LoanThisYear(0), LoanOverpaid>>,
      <<LoanThisYear(0), LoanThisYear(0), LoanThisYear(0), LoanThisYear(0),
        LoanThisYear(0), LoanThisYear(0), LoanThisYear(0), LoanThisYear(0),
        LoanThisYear(0), LoanThisYear(0), LoanThisYear(0), LoanThisYear(0),
        LoanThisYear(0), LoanThisYear(0), LoanThisYear(0), LoanThisYear(0),
        LoanThisYear(0), LoanHeavy>>,
      [i \in 1..18 |-> LoanThisYear(2)] }

\* the customer of the specification's scenarios: salary 100000,
\* approved_limit 3,600,000.00 and current_debt 3,600,000.00
ScenarioCustomer == CustomerRow(100000, 360000000, 360000000)

SmallCustomers ==
    { CustomerRow(s, l, d) : s \in {1, 4}, l \in {0, 1000}, d \in {0, 800, 1000, 1200} }

Customers == SmallCustomers \cup {ScenarioCustomer}

Amounts == {-100, 0, 100, 300, 1000}

Rates == {0, 800, 2000, 15000}

Tenures == {-1, 0, 1, 2}

FaultSets == {{}, {"score"}, {"emis"}}

----------------------------------------------------------------------------
(* The functions on their own: arguments drawn, then the function applied *)

NotCalled == [done |-> FALSE]

Result(v) == [done |-> TRUE, out |-> v]

NoCall == [fn |-> "none"]

Workers == {1, 2}

\* No request is being served and the tables are empty
Quiescent ==
    /\ customers = <<>>
    /\ loans = <<>>
    /\ today = <<2024, 1, 31>>
    /\ pc = [w \in Workers |-> "idle"]
    /\ req = [w \in Workers |-> NoCall]
    /\ local = [w \in Workers |-> NoCall]
    /\ dec = [w \in Workers |-> NotCalled]
    /\ resp = [w \in Workers |-> NotCalled]
    /\ served = 0
    /\ seed = [customers |-> <<>>, loans |-> <<>>]

SystemVars == <<customers, loans, today, pc, req, local, dec, resp, served, seed>>

InitScore ==
    /\ Quiescent
    /\ call \in [fn : {"calculate_credit_score"}, customer : Customers,
                 loans : ScoreHistories, now : Todays, fault : BOOLEAN]
    /\ ret = NotCalled

ApplyScore ==
    /\ call.fn = "calculate_credit_score"
    /\ ~ret.done
    /\ ret' = Result(calculate_credit_score(call.customer, call.loans, call.now, call.fault))
               @@ [log |-> calculate_credit_score_log(call.customer, call.loans, call.now,
                                                      call.fault)]
    /\ UNCHANGED <<SystemVars, call>>

SpecScore == InitScore /\ [][ApplyScore]_vars

ScoreGrid == 0..100

RateGrid == {0, 1, 500, 1199, 1200, 1201, 1599, 1600, 1601, 9999, 10000, 10001, 15000, 99999}

InitRate ==
    /\ Quiescent
    /\ call \in [fn : {"determine_corrected_interest_rate"}, credit_score : ScoreGrid,
                 requested_rate : RateGrid]
    /\ ret = NotCalled

ApplyRate ==
    /\ call.fn = "determine_corrected_interest_rate"
    /\ ~ret.done
    /\ ret' = Result(determine_corrected_interest_rate(call.credit_score, call.requested_rate))
    /\ UNCHANGED <<SystemVars, call>>

SpecRate == InitRate /\ [][ApplyRate]_vars

\* principals 0.01 ... 500000.00, among them ones no tenure below 13 divides
EmiPrincipals == {1, 100, 700, 1000, 12345, 50000000}

EmiRates == {0, 1200}

EmiTenures == -1..12

InitEmi ==
    /\ Quiescent
    /\ call \in [fn : {"calculate_emi"}, principal : EmiPrincipals,
                 annual_interest_rate : EmiRates, tenure_months : EmiTenures]
    /\ ret = NotCalled

ApplyEmi ==
    /\ call.fn = "calculate_emi"
    /\ ~ret.done
    /\ ret' = Result(calculate_emi(call.principal, call.annual_interest_rate,
                                   call.tenure_months))
    /\ UNCHANGED <<SystemVars, call>>

SpecEmi == InitEmi /\ [][ApplyEmi]_vars

InitApproval ==
    /\ Quiescent
    /\ call \in [fn : {"check_loan_approval"}, customer : Customers,
                 loans : ApprovalHistories, now : Todays, loan_amount : Amounts,
                 requested_interest_rate : Rates, tenure : Tenures, faults : FaultSets]
    /\ ret = NotCalled

\* mutant: the call books the amount on the Customer object it was given
ApplyApproval_booking ==
    /\ call.fn = "check_loan_approval"
    /\ ~ret.done
    /\ ret' = Result(check_loan_approval(call.customer, call.loans, call.now,
                        call.loan_amount, call.requested_interest_rate, call.tenure,
                        call.faults))
    /\ call' = [call EXCEPT !.customer.current_debt = @ + call.loan_amount]
    /\ UNCHANGED SystemVars

\* the method assigns to no attribute of its arguments and writes no row
ApplyApproval ==
    /\ call.fn = "check_loan_approval"
    /\ ~ret.done
    /\ ret' = Result(check_loan_approval(call.customer, call.loans, call.now,
                        call.loan_amount, call.requested_interest_rate, call.tenure,
                        call.faults))
    /\ UNCHANGED <<SystemVars, call>>

\* a second call on what the first call left
ApplyApprovalAgain ==
    /\ call.fn = "check_loan_approval"
    /\ ret.done /\ "again" \notin DOMAIN ret
    /\ ret' = ret @@ [again |-> check_loan_approval(call.customer, call.loans, call.now,
                                    call.loan_amount, call.requested_interest_rate,
                                    call.tenure, call.faults)]
    /\ UNCHANGED <<SystemVars, call>>

SpecApproval == InitApproval /\ [][ApplyApproval \/ ApplyApprovalAgain]_vars

----------------------------------------------------------------------------
(* models.py: Customer.save, and what the database keeps of a Decimal *)

LimitUnit == 100000

\* mutant: the quotient is rounded half to even
computed_limit_half_even(monthly_salary) ==
    QuantizeHalfEven(Rat(36 * monthly_salary, LimitUnit)) * LimitUnit * 100

\* round(36 * monthly_salary, nearest 100000), ROUND_HALF_UP, in hundredths
computed_limit(monthly_salary) ==
    QuantizeHalfUp(Rat(36 * monthly_salary, LimitUnit)) * LimitUnit * 100

\* mutant: every save recomputes the limit
SavedCustomer_always(c) ==
    [c EXCEPT !.approved_limit = computed_limit(c.monthly_salary)]

\* Customer.save(): a zero approved_limit is recomputed, then the whole row is written
SavedCustomer(c) ==
    IF c.approved_limit = 0
    THEN [c EXCEPT !.approved_limit = computed_limit(c.monthly_salary)]
    ELSE c

\* The row serializer.save() creates for a registration: the serializer has
\* no approved_limit field, so save() finds None (here 0) and computes it;
\* current_debt takes the field's default
RegisteredCustomer(monthly_salary) == SavedCustomer(CustomerRow(monthly_salary, 0, 0))

SalarySteps == 80

\* monthly salaries 0, 1250, ..., 100000 and some around the first two ties
RegisterGrid == {1250 * k : k \in 0..SalarySteps} \cup {20, 1388, 1389, 4166, 4167}

InitRegister ==
    /\ Quiescent
    /\ call \in [fn : {"register_customer"}, monthly_salary : RegisterGrid]
    /\ ret = NotCalled

ApplyRegister ==
    /\ call.fn = "register_customer"
    /\ ~ret.done
    /\ ret' = Result(RegisteredCustomer(call.monthly_salary))
    /\ UNCHANGED <<SystemVars, call>>

SpecRegister == InitRegister /\ [][ApplyRegister]_vars

\* A DecimalField(decimal_places=2) column keeps two places.  The backend
\* rounds a longer value: Django's format_number with ROUND_HALF_EVEN, or the
\* database's own numeric rounding, half away from zero.
StoredDecimal(p) == {QuantizeHalfEven(p), QuantizeHalfUp(p)}

\* DRF DecimalField(decimal_places=2).validate_precision
HasTwoPlaces(p) == p[2] = 1

----------------------------------------------------------------------------
(* views.py: the request handlers over the tables *)

MaxRequests == 2

SeedCustomers == {CustomerRow(20, 1000, 0), CustomerRow(4, 1000, 800)}

SeedHistories == {<<>>, <<LoanHeavy>>, <<LoanPaid(6000)>>}

SysAmounts == {300, 700}

SysRates == {0, 2000}

SysTenures == {0, 2}

SysFaultSets == {{}}

\* The serializers' fields carry no min_value: a negative tenure, a negative
\* loan_amount and a negative interest_rate are valid data
NegativeRequests ==
    { [customer_id |-> 1, loan_amount |-> 300, interest_rate |-> 0, tenure |-> -1],
      [customer_id |-> 1, loan_amount |-> -300, interest_rate |-> 2000, tenure |-> 2],
      [customer_id |-> 1, loan_amount |-> 300, interest_rate |-> -1200, tenure |-> 2] }

\* 7.00 at no interest over 3 months: an EMI of 2.333...
ThirdsRequest == [customer_id |-> 1, loan_amount |-> 700, interest_rate |-> 0, tenure |-> 3]

\* an interest rate of 1000.00, one digit more than the serializer takes
OverlongRequest ==
    [customer_id |-> 1, loan_amount |-> 300, interest_rate |-> 100000, tenure |-> 2]

\* the data of the requests to check_loan_eligibility
SysRequests ==
    [customer_id : {1}, loan_amount : SysAmounts, interest_rate : SysRates,
     tenure : SysTenures]
    \cup {[customer_id |-> 2, loan_amount |-> 300, interest_rate |-> 2000, tenure |-> 2]}
    \cup NegativeRequests
    \cup {ThirdsRequest, OverlongRequest}

\* the requests sent to create_loan: two amounts without interest, one with,
\* a tenure of zero, an unknown customer, the negative terms and the thirds
CreateRequests ==
    { [customer_id |-> 1, loan_amount |-> 300, interest_rate |-> 0, tenure |-> 2],
      [customer_id |-> 1, loan_amount |-> 700, interest_rate |-> 0, tenure |-> 2],
      [customer_id |-> 1, loan_amount |-> 300, interest_rate |-> 2000, tenure |-> 2],
      [customer_id |-> 1, loan_amount |-> 300, interest_rate |-> 0, tenure |-> 0],
      [customer_id |-> 2, loan_amount |-> 300, interest_rate |-> 2000, tenure |-> 2] }
    \cup NegativeRequests
    \cup {ThirdsRequest}

\* customer.loans: the Loan rows whose foreign key is the customer
LoansOf(cid) == SelectSeq(loans, LAMBDA l : l.customer_id = cid)

Init ==
    /\ \E c \in SeedCustomers, h \in SeedHistories :
          /\ customers = (1 :> c)
          /\ loans = h
          /\ seed = [customers |-> (1 :> c), loans |-> h]
    /\ today \in Todays
    /\ pc = [w \in Workers |-> "idle"]
    /\ req = [w \in Workers |-> NoCall]
    /\ local = [w \in Workers |-> NoCall]
    /\ dec = [w \in Workers |-> NotCalled]
    /\ resp = [w \in Workers |-> NotCalled]
    /\ served = 0
    /\ call = NoCall
    /\ ret = NotCalled

Http(status, body) == [done |-> TRUE, status |-> status, body |-> body]

\* get_object_or_404 raises Http404, which the handlers' "except Exception" catches
ServerError(text) == Http(500, [error |-> text])

\* response_serializer.errors: DecimalField.validate_precision fails on
\* max_digits or on decimal_places
SerializerErrors == Http(500, [monthly_installment |-> "Ensure that there are no more than 15 digits in total / 2 decimal places."])

\* loan_id = None (AutoField keys start at 1)
NoLoanId == 0

\* a request goes to the first idle worker; the number of requests served
\* is bounded
Accept(w, fn, r) ==
    /\ pc[w] = "idle"
    /\ \A v \in Workers : v < w => pc[v] # "idle"
    /\ served < MaxRequests
    /\ served' = served + 1
    /\ req' = [req EXCEPT ![w] = [fn |-> fn] @@ r]
    /\ dec' = [dec EXCEPT ![w] = NotCalled]
    /\ UNCHANGED <<today, seed, call, ret>>

\* monthly_salary of a registration; MinValueValidator(0) refuses -1
RegisterSalaries == {-1, 20, 100000}

\* register_customer: the whole handler.  The new Customer has no
\* approved_limit (None, here 0) and the default current_debt when save() runs
RegisterCustomer(w, monthly_salary) ==
    /\ Accept(w, "register_customer", [monthly_salary |-> monthly_salary])
    /\ UNCHANGED <<loans, pc, local>>
    /\ IF monthly_salary < 0
       THEN /\ resp' = [resp EXCEPT ![w] =
                           Http(400, [monthly_salary |-> "Ensure this value is greater than or equal to 0."])]
            /\ UNCHANGED customers
       ELSE LET customer_id == Cardinality(DOMAIN customers) + 1
                c == RegisteredCustomer(monthly_salary)
            IN  /\ customers' = customers @@ (customer_id :> c)
                /\ resp' = [resp EXCEPT ![w] =
                               Http(201, [customer_id |-> customer_id] @@ c)]

\* check_loan_eligibility: the response to the decision d, if it serializes
EligibilityAnswer(r, d) ==
    IF HasTwoPlaces(d.monthly_installment)
    THEN Http(200, [customer_id |-> r.customer_id,
                    approval |-> d.approved,
                    interest_rate |-> r.interest_rate,
                    corrected_interest_rate |-> d.interest_rate,
                    tenure |-> r.tenure,
                    monthly_installment |-> d.monthly_installment])
    ELSE SerializerErrors

\* check_loan_eligibility: the response computed from the tables as they are
EligibilityResponse(r, faults) ==
    IF r.customer_id \notin DOMAIN customers
    THEN ServerError("Internal server error during eligibility check")
    ELSE EligibilityAnswer(r, check_loan_approval(customers[r.customer_id],
                                  LoansOf(r.customer_id), today, r.loan_amount,
                                  r.interest_rate, r.tenure, faults))

\* serializer.is_valid(): DecimalField(max_digits=5, decimal_places=2) takes
\* no interest_rate beyond 999.99
SerializerValid(r) == Abs(r.interest_rate) <= 99999

\* serializer.errors
ValidationErrors == Http(400, [interest_rate |-> "Ensure that there are no more than 5 digits in total."])

\* mutant: an approval books the amount on the customer
CheckLoanEligibility_booking(w, r, faults) ==
    /\ Accept(w, "check_loan_eligibility", r)
    /\ UNCHANGED <<loans, pc, local>>
    /\ resp' = [resp EXCEPT ![w] = IF SerializerValid(r) THEN EligibilityResponse(r, faults)
                                   ELSE ValidationErrors]
    /\ customers' =
          IF EligibilityResponse(r, faults).status = 200 /\ EligibilityResponse(r, faults).body.approval
          THEN [customers EXCEPT ![r.customer_id].current_debt = @ + r.loan_amount]
          ELSE customers

\* check_loan_eligibility: the whole handler; it writes nothing
CheckLoanEligibility(w, r, faults) ==
    /\ Accept(w, "check_loan_eligibility", r)
    /\ UNCHANGED <<customers, loans, pc, local>>
    /\ resp' = [resp EXCEPT ![w] = IF SerializerValid(r) THEN EligibilityResponse(r, faults)
                                   ELSE ValidationErrors]

\* create_loan, first statement on the database: get_object_or_404
CreateLoanRead(w, r) ==
    /\ Accept(w, "create_loan", r)
    /\ UNCHANGED <<customers, loans>>
    /\ IF r.customer_id \notin DOMAIN customers
       THEN /\ resp' = [resp EXCEPT ![w] =
                           ServerError("Internal server error during loan creation")]
            /\ UNCHANGED <<pc, local>>
       ELSE /\ local' = [local EXCEPT ![w] =
                            [customer |-> customers[r.customer_id], loan_id |-> NoLoanId]]
            /\ pc' = [pc EXCEPT ![w] = "decide"]
            /\ resp' = [resp EXCEPT ![w] = NotCalled]

CreationResponse(status, r, d, loan_id) ==
    IF HasTwoPlaces(d.monthly_installment)
    THEN Http(status, [loan_id |-> loan_id, customer_id |-> r.customer_id,
                       loan_approved |-> d.approved, message |-> d.message,
                       monthly_installment |-> d.monthly_installment])
    ELSE SerializerErrors

\* create_loan: check_loan_approval on the Customer object read before and
\* on the Loan rows as they are now; a rejection is answered at once
CreateLoanDecide(w, faults) ==
    /\ pc[w] = "decide"
    /\ dec' = [dec EXCEPT ![w] =
                  Result(check_loan_approval(local[w].customer, LoansOf(req[w].customer_id),
                             today, req[w].loan_amount, req[w].interest_rate,
                             req[w].tenure, faults))]
    /\ IF dec'[w].out.approved
       THEN /\ pc' = [pc EXCEPT ![w] = "insert"]
            /\ UNCHANGED <<resp, local>>
       ELSE /\ pc' = [pc EXCEPT ![w] = "idle"]
            /\ resp' = [resp EXCEPT ![w] =
                           CreationResponse(200, req[w], dec'[w].out, NoLoanId)]
            /\ local' = [local EXCEPT ![w] = NoCall]
    /\ UNCHANGED <<customers, loans, today, req, served, seed, call, ret>>

\* date.toordinal(): the number of the day, 0001-01-01 being day 1
toordinal(dt) ==
    LET y == dt[1] - 1
    IN  365 * y + y \div 4 - y \div 100 + y \div 400
        + SeqSum([m \in 1..(dt[2] - 1) |-> DaysInMonth(dt[1], m)]) + dt[3]

\* date.max.toordinal(), the ordinal of 9999-12-31
MaxOrdinal == 3652059

\* date + timedelta(days=n) raises OverflowError outside 0001-01-01 .. 9999-12-31
DateOverflows(dt, n) == toordinal(dt) + n < 1 \/ toordinal(dt) + n > MaxOrdinal

\* end_date = (start_date + timedelta(days=30 * tenure)).replace(day=1) - timedelta(days=1)
loan_end_date(start_date, tenure) ==
    PrevDay(FirstOfMonth(AddDays(start_date, 30 * tenure)))

\* create_loan: the dates, then Loan.objects.create(...); an OverflowError of
\* the date arithmetic goes to the handler's "except Exception"
CreateLoanInsert(w) ==
    /\ pc[w] = "insert"
    /\ IF DateOverflows(today, 30 * req[w].tenure)
       THEN /\ resp' = [resp EXCEPT ![w] =
                           ServerError("Internal server error during loan creation")]
            /\ local' = [local EXCEPT ![w] = NoCall]
            /\ pc' = [pc EXCEPT ![w] = "idle"]
            /\ UNCHANGED loans
       ELSE /\ LET r == req[w]
                   d == dec[w].out
               IN  \E stored \in StoredDecimal(d.monthly_installment) :
                      loans' = Append(loans,
                                  LoanRow(r.customer_id, r.loan_amount, r.tenure,
                                          d.interest_rate, stored, 0, today,
                                          loan_end_date(today, r.tenure), "APPROVED"))
            /\ local' = [local EXCEPT ![w].loan_id = Len(loans) + 1]
            /\ pc' = [pc EXCEPT ![w] = "save"]
            /\ UNCHANGED resp
    /\ UNCHANGED <<customers, today, req, dec, served, seed, call, ret>>

\* create_loan: customer.current_debt += loan_amount; customer.save(); the response
CreateLoanSave(w) ==
    /\ pc[w] = "save"
    /\ LET r == req[w]
           c == SavedCustomer([local[w].customer EXCEPT !.current_debt = @ + r.loan_amount])
       IN  /\ customers' = [customers EXCEPT ![r.customer_id] =
                                CustomerRow(c.monthly_salary, c.approved_limit, c.current_debt)]
           /\ local' = [local EXCEPT ![w] = NoCall]
           /\ resp' = [resp EXCEPT ![w] =
                          CreationResponse(201, r, dec[w].out, local[w].loan_id)]
    /\ pc' = [pc EXCEPT ![w] = "idle"]
    /\ UNCHANGED <<loans, today, req, dec, served, seed, call, ret>>

\* loan ids and customer ids of the view requests; no row has the id 9
ViewLoanIds == {1, 9}

ViewCustomerIds == {1, 9}

\* LoanDetailSerializer(loan).data
LoanDetail(loan_id) ==
    LET loan == loans[loan_id]
    IN  [loan_id |-> loan_id,
         customer |-> [customer_id |-> loan.customer_id] @@ customers[loan.customer_id],
         loan_amount |-> loan.loan_amount, interest_rate |-> loan.interest_rate,
         monthly_repayment |-> loan.monthly_repayment, tenure |-> loan.tenure,
         status |-> loan.status]

\* view_loan: the whole handler; its except clause answers 404 whatever was raised
ViewLoan(w, loan_id) ==
    /\ Accept(w, "view_loan", [loan_id |-> loan_id])
    /\ UNCHANGED <<customers, loans, pc, local>>
    /\ resp' = [resp EXCEPT ![w] =
                   IF loan_id \in 1..Len(loans)
                   THEN Http(200, LoanDetail(loan_id))
                   ELSE Http(404, [error |-> "Loan not found or internal server error"])]

\* mutant: a loan that ends today is still listed
current_loans_not_ended(customer_id, now) ==
    {i \in 1..Len(loans) :
        /\ loans[i].customer_id = customer_id
        /\ ~DateGT(now, loans[i].end_date)
        /\ loans[i].status = "APPROVED"}

\* Loan.objects.filter(customer=customer, end_date__gt=today, status='APPROVED'):
\* the loan_ids selected
current_loans(customer_id, now) ==
    {i \in 1..Len(loans) :
        /\ loans[i].customer_id = customer_id
        /\ DateGT(loans[i].end_date, now)
        /\ loans[i].status = "APPROVED"}

\* .order_by('-start_date'): the orders the database may return, rows of
\* equal start_date in any order
OrderedByStartDesc(ids) ==
    {o \in [1..Cardinality(ids) -> ids] :
        /\ \A i, j \in DOMAIN o : i # j => o[i] # o[j]
        /\ \A i, j \in DOMAIN o :
              i < j => ~DateGT(loans[o[j]].start_date, loans[o[i]].start_date)}

\* Loan.repayments_left
repayments_left(loan) == Max(0, loan.tenure - loan.emis_paid_on_time)

\* CustomerLoanSerializer(loan).data
CustomerLoan(loan_id) ==
    LET loan == loans[loan_id]
    IN  [loan_id |-> loan_id, loan_amount |-> loan.loan_amount,
         interest_rate |-> loan.interest_rate,
         monthly_repayment |-> loan.monthly_repayment,
         repayments_left |-> repayments_left(loan), status |-> loan.status]

\* view_customer_loans: the whole handler
ViewCustomerLoans(w, customer_id) ==
    /\ Accept(w, "view_customer_loans", [customer_id |-> customer_id])
    /\ UNCHANGED <<customers, loans, pc, local>>
    /\ IF customer_id \notin DOMAIN customers
       THEN resp' = [resp EXCEPT ![w] =
                        ServerError("Internal server error during viewing customer loans")]
       ELSE \E o \in OrderedByStartDesc(current_loans(customer_id, today)) :
               resp' = [resp EXCEPT ![w] =
                           Http(200, [i \in DOMAIN o |-> CustomerLoan(o[i])])]

\* Loan rows of either of two customers, in every status, ending the day
\* before the date of the views, on it and the day after
\* (the running APPROVED ones with either of two start dates)
ViewPool ==
    { LoanRow(c, 100, 12, 1200, 9, 3, <<2023, 6, 1>>, en, status) :
        c \in {1, 2},
        en \in {<<2024, 6, 14>>, <<2024, 6, 15>>, <<2024, 6, 16>>},
        status \in {"PENDING", "APPROVED", "REJECTED", "PAID"} }
    \cup { LoanRow(c, 100, 12, 1200, 9, 3, <<2023, 7, 1>>, <<2024, 6, 16>>, "APPROVED") :
             c \in {1, 2} }

MaxViewLoans == 2

ViewTables == UNION {[1..n -> ViewPool] : n \in 0..MaxViewLoans}

\* two customers and a Loan table, on 2024-06-15
InitView ==
    /\ customers = (1 :> CustomerRow(20, 1000, 0)) @@ (2 :> CustomerRow(4, 1000, 800))
    /\ loans \in ViewTables
    /\ today = <<2024, 6, 15>>
    /\ seed = [customers |-> customers, loans |-> loans]
    /\ pc = [w \in Workers |-> "idle"]
    /\ req = [w \in Workers |-> NoCall]
    /\ local = [w \in Workers |-> NoCall]
    /\ dec = [w \in Workers |-> NotCalled]
    /\ resp = [w \in Workers |-> NotCalled]
    /\ served = 0
    /\ call = NoCall
    /\ ret = NotCalled

NextView ==
    \/ \E w \in Workers, i \in ViewLoanIds : ViewLoan(w, i)
    \/ \E w \in Workers, c \in ViewCustomerIds : ViewCustomerLoans(w, c)

SpecView == InitView /\ [][NextView]_vars

\* 1,220.00 at no interest over 122000 months: an EMI of 0.01, and an
\* end date beyond the year 9999
LongRequest ==
    [customer_id |-> 1, loan_amount |-> 122000, interest_rate |-> 0, tenure |-> 122000]

\* the requests of the registration scenario: 500,000.00 or 4,000,000.00
\* at 8% or 12% over 12 or 24 months, by the first customer registered
ScenarioRequests ==
    [customer_id : {1}, loan_amount : {50000000, 400000000},
     interest_rate : {800, 1200}, tenure : {12, 24}]
    \cup {LongRequest}

\* the requests the scenario sends to create_loan
ScenarioCreateRequests ==
    {[customer_id |-> 1, loan_amount |-> 50000000, interest_rate |-> 1200, tenure |-> 24],
     LongRequest}

\* monthly incomes of the registrations of the scenario
ScenarioSalaries == {-1, 20, 50000, 100000}

\* empty tables: the customers are the ones registered
InitScenario ==
    /\ customers = <<>>
    /\ loans = <<>>
    /\ seed = [customers |-> <<>>, loans |-> <<>>]
    /\ today \in Todays
    /\ pc = [w \in Workers |-> "idle"]
    /\ req = [w \in Workers |-> NoCall]
    /\ local = [w \in Workers |-> NoCall]
    /\ dec = [w \in Workers |-> NotCalled]
    /\ resp = [w \in Workers |-> NotCalled]
    /\ served = 0
    /\ call = NoCall
    /\ ret = NotCalled

NextScenario ==
    \/ \E w \in Workers, s \in ScenarioSalaries : RegisterCustomer(w, s)
    \/ \E w \in Workers, r \in ScenarioRequests : CheckLoanEligibility(w, r, {})
    \/ \E w \in Workers, r \in ScenarioCreateRequests : CreateLoanRead(w, r)
    \/ \E w \in Workers : CreateLoanDecide(w, {})
    \/ \E w \in Workers : CreateLoanInsert(w)
    \/ \E w \in Workers : CreateLoanSave(w)

SpecScenario == InitScenario /\ [][NextScenario]_vars

\* the date changes while no statement runs
Tick ==
    /\ \E d \in Todays : DateGT(d, today) /\ today' = d
    /\ UNCHANGED <<customers, loans, pc, req, local, dec, resp, served, seed, call, ret>>

Next ==
    \/ \E w \in Workers, s \in RegisterSalaries : RegisterCustomer(w, s)
    \/ \E w \in Workers, r \in SysRequests, f \in SysFaultSets : CheckLoanEligibility(w, r, f)
    \/ \E w \in Workers, r \in CreateRequests : CreateLoanRead(w, r)
    \/ \E w \in Workers, f \in SysFaultSets : CreateLoanDecide(w, f)
    \/ \E w \in Workers : CreateLoanInsert(w)
    \/ \E w \in Workers : CreateLoanSave(w)
    \/ Tick

Spec == Init /\ [][Next]_vars

\* create_loan requests that arrive one after the other: in the seeded tables,
\* and with 7.00 and 3.00 over one month, which bring the EMIs of the customer
\* with the salary 20 to half of it
SequentialRequests ==
    CreateRequests \cup
    { [customer_id |-> 1, loan_amount |-> 700, interest_rate |-> 0, tenure |-> 1],
      [customer_id |-> 1, loan_amount |-> 300, interest_rate |-> 0, tenure |-> 1] }

\* a request is accepted only when the one before it has been answered, and
\* the date stays
NextSequential ==
    /\ \/ \E w \in Workers, r \in SequentialRequests : CreateLoanRead(w, r)
       \/ \E w \in Workers : CreateLoanDecide(w, {})
       \/ \E w \in Workers : CreateLoanInsert(w)
       \/ \E w \in Workers : CreateLoanSave(w)
    /\ Cardinality({w \in Workers : pc'[w] # "idle"}) <= 1

SpecSequential == Init /\ [][NextSequential]_vars

\* the days of a leap year and of the year before it: every start day of the
\* month and every month length
StartDates ==
    { dt \in {2023, 2024} \X (1..12) \X (1..31) : dt[3] <= DaysInMonth(dt[1], dt[2]) }

EndDateTenures == {1, 2, 12}

\* the dates of a Loan that create_loan inserts on a day
InitEndDate ==
    /\ Quiescent
    /\ call \in [fn : {"loan_end_date"}, start_date : StartDates, tenure : EndDateTenures]
    /\ ret = NotCalled

ApplyEndDate ==
    /\ call.fn = "loan_end_date"
    /\ ~ret.done
    /\ ret' = Result(loan_end_date(call.start_date, call.tenure))
    /\ UNCHANGED <<SystemVars, call>>

SpecEndDate == InitEndDate /\ [][ApplyEndDate]_vars

----------------------------------------------------------------------------
(* The claims *)

\* the amounts of the loans a customer's create_loan requests have inserted
CreatedVolume(cid) ==
    SeqSum([i \in 1..Len(loans) |->
               IF i > Len(seed.loans) /\ loans[i].customer_id = cid
               THEN loans[i].loan_amount ELSE 0])

AmountsPositive ==
    \A i \in 1..Len(loans) : i > Len(seed.loans) => loans[i].loan_amount > 0

\* C1: starting from current_debt <= approved_limit and with positive loan
\* amounts, under every interleaving of create_loan requests for a customer
\* current_debt stays <= approved_limit and the loans the requests approve
\* add up to at most approved_limit minus the initial current_debt.
C1_NoOverApproval ==
    \A cid \in DOMAIN seed.customers :
        (seed.customers[cid].current_debt <= seed.customers[cid].approved_limit
         /\ AmountsPositive)
        => /\ customers[cid].current_debt <= customers[cid].approved_limit
           /\ CreatedVolume(cid) <=
                 seed.customers[cid].approved_limit - seed.customers[cid].current_debt

\* check_loan_approval has been applied to the drawn arguments
Decided == call.fn = "check_loan_approval" /\ ret.done

\* no query raised and no computation raised
NoInternalError ==
    /\ call.faults = {}
    /\ calculate_emi(call.loan_amount,
                     determine_corrected_interest_rate(
                         calculate_credit_score(call.customer, call.loans, call.now, FALSE),
                         call.requested_interest_rate),
                     call.tenure).ok

\* the score, corrected rate and candidate EMI of the drawn arguments
ArgScore == calculate_credit_score(call.customer, call.loans, call.now, FALSE)

ArgRate == determine_corrected_interest_rate(ArgScore, call.requested_interest_rate)

ArgEmi == calculate_emi(call.loan_amount, ArgRate, call.tenure).val

\* sum of monthly_repayment over the loans with status APPROVED and end_date
\* after today
ActiveEmiSum ==
    SeqSum([i \in 1..Len(call.loans) |->
               IF call.loans[i].status = "APPROVED"
                  /\ DateGT(call.loans[i].end_date, call.now)
               THEN call.loans[i].monthly_repayment ELSE 0])

\* (sum of active EMIs + candidate EMI) <= 0.5 * monthly_salary
EmiWithinHalfSalary ==
    (ActiveEmiSum * ArgEmi[2] + ArgEmi[1]) * 2
        <= call.customer.monthly_salary * 100 * ArgEmi[2]

WithinRemainingLimit ==
    call.loan_amount <= call.customer.approved_limit - call.customer.current_debt

\* C2: with no internal error, check_loan_approval approves with "Loan
\* approved." exactly when the EMI sum is within half the salary, the score
\* is above 10 and the amount is within the remaining limit.
C2_ApprovedIffAllThree ==
    (Decided /\ NoInternalError) =>
        /\ ret.out.approved <=>
              (EmiWithinHalfSalary /\ ArgScore > 10 /\ WithinRemainingLimit)
        /\ ret.out.approved <=> (ret.out.message = MsgApproved)

C2_Witness ==
    /\ Decided /\ NoInternalError
    /\ EmiWithinHalfSalary /\ ArgScore > 10 /\ WithinRemainingLimit
    /\ call.loan_amount > 0 /\ call.tenure > 0
    /\ ret.out.approved /\ ret.out.message.text = "Loan approved."

\* C3: the checks run in the order EMI-to-income, score <= 10, remaining
\* limit; the message is that of the first failing check, and a rejection by
\* one of them returns the corrected rate and the EMI computed from it.
C3_FirstFailingCheck ==
    (Decided /\ NoInternalError) =>
        /\ ~EmiWithinHalfSalary =>
              ~ret.out.approved /\ ret.out.message = MsgEmiTooHigh
        /\ (EmiWithinHalfSalary /\ ArgScore <= 10) =>
              ~ret.out.approved /\ ret.out.message = MsgScoreTooLow
        /\ (EmiWithinHalfSalary /\ ArgScore > 10 /\ ~WithinRemainingLimit) =>
              /\ ~ret.out.approved
              /\ ret.out.message.text =
                    "Requested loan amount {loan_amount} exceeds remaining approved limit {remaining_approved_limit}."
        /\ ~ret.out.approved =>
              ret.out.interest_rate = ArgRate /\ ret.out.monthly_installment = ArgEmi

\* all three checks fail and the message is the EMI one
C3_Witness ==
    /\ Decided /\ NoInternalError
    /\ ~EmiWithinHalfSalary /\ ArgScore <= 10 /\ ~WithinRemainingLimit
    /\ call.customer.current_debt <= call.customer.approved_limit
    /\ ret.out.message = MsgEmiTooHigh
    /\ ret.out.interest_rate = RateSentinel

DebtAtLimit ==
    /\ call.customer.current_debt = call.customer.approved_limit
    /\ call.loan_amount > 0

\* C4 as stated: with current_debt = approved_limit = 3,600,000 any positive
\* amount gets score 0, rate 100.00 and "Credit score is too low."
C4_AsStated ==
    (Decided /\ NoInternalError /\ DebtAtLimit /\ call.customer = ScenarioCustomer) =>
        /\ ret.out.credit_score = 0
        /\ ret.out.interest_rate = RateSentinel
        /\ ~ret.out.approved /\ ret.out.message = MsgScoreTooLow

\* C4 amended: with current_debt = approved_limit every request for a
\* positive amount is rejected; the score is not forced to 0 (it is 100 with
\* no loan history, the rate then unchanged), and when the score is above 10
\* and the EMI check passes the message is the remaining-limit one.
C4_RejectedAtLimit ==
    (Decided /\ DebtAtLimit) =>
        /\ ~ret.out.approved
        /\ (NoInternalError /\ Len(call.loans) = 0) =>
              /\ ret.out.credit_score = 100
              /\ ret.out.interest_rate = call.requested_interest_rate
        /\ (NoInternalError /\ EmiWithinHalfSalary /\ ArgScore > 10) =>
              ret.out.message = MsgLimitExceeded(call.loan_amount, 0)

C4_Witness ==
    /\ Decided /\ NoInternalError /\ DebtAtLimit
    /\ call.customer = ScenarioCustomer
    /\ Len(call.loans) = 0
    /\ EmiWithinHalfSalary
    /\ ret.out.credit_score = 100
    /\ ~ret.out.approved
    /\ ret.out.message = MsgLimitExceeded(call.loan_amount, 0)

Scored == call.fn = "calculate_credit_score" /\ ret.done

\* C5: calculate_credit_score returns an integer in [0, 100] for every
\* customer and loan history.
C5_ScoreInRange == Scored => ret.out \in 0..100

\* the penalties add up to more than 100 and the result is clamped to 0
C5_Witness ==
    /\ Scored /\ ~call.fault
    /\ call.customer.current_debt <= call.customer.approved_limit
    /\ Len(call.loans) > 0
    /\ RawScore(call.customer, call.loans, call.now).neg
    /\ ret.out = 0

\* C6 as stated: with no loan history the score is 100.
C6_AsStated == (Scored /\ ~call.fault /\ Len(call.loans) = 0) => ret.out = 100

\* C6 amended: with no loan history, current_debt <= approved_limit and no
\* error raised while scoring, the score is 100.
C6_NoHistoryScore ==
    (Scored /\ ~call.fault /\ Len(call.loans) = 0
     /\ call.customer.current_debt <= call.customer.approved_limit) => ret.out = 100

C6_Witness ==
    /\ Scored /\ ~call.fault /\ Len(call.loans) = 0
    /\ call.customer.current_debt = call.customer.approved_limit
    /\ call.customer.approved_limit > 0
    /\ ret.out = 100

\* C7: with current_debt > approved_limit the score is 0 whatever the loan
\* history, and the decision is never an approval.
C7_OverLimitScoresZero ==
    (Decided /\ call.customer.current_debt > call.customer.approved_limit) =>
        ret.out.credit_score = 0 /\ ~ret.out.approved

\* an over-extended customer with a history in good standing, whose request
\* passes the EMI check
C7_Witness ==
    /\ Decided /\ NoInternalError
    /\ call.customer.current_debt > call.customer.approved_limit
    /\ call.loans = <<LoanGood>> /\ call.now = <<2024, 1, 31>>
    /\ EmiWithinHalfSalary
    /\ ret.out.credit_score = 0
    /\ ret.out.message = MsgScoreTooLow

Corrected == call.fn = "determine_corrected_interest_rate" /\ ret.done

\* C8: score > 50 gives the requested rate, 30 < score <= 50 gives
\* max(12.00, requested), 10 < score <= 30 gives max(16.00, requested) and
\* score <= 10 gives 100.00; 50, 30 and 10 belong to the lower band.
C8_Bands ==
    Corrected =>
        LET sc == call.credit_score
            rq == call.requested_rate
        IN  /\ sc >= 51 => ret.out = rq
            /\ sc \in 31..50 => ret.out = (IF rq < 1200 THEN 1200 ELSE rq)
            /\ sc \in 11..30 => ret.out = (IF rq < 1600 THEN 1600 ELSE rq)
            /\ sc <= 10 => ret.out = 10000

C8_Witness ==
    /\ Corrected
    /\ call.credit_score = 30 /\ call.requested_rate = 1201
    /\ ret.out = 1600

\* the corrected rate at the drawn score is at most the corrected rate at
\* every lower score
RateMonotone ==
    \A lower \in 0..call.credit_score :
        ret.out <= determine_corrected_interest_rate(lower, call.requested_rate)

\* C9 as stated: for every requested rate from 0.00 to 999.99 the corrected
\* rate does not decrease as the score decreases.
C9_AsStated == Corrected => RateMonotone

\* C9 amended: for every requested rate from 0.00 to 100.00 the corrected
\* rate does not decrease as the score decreases.
C9_MonotoneUpToSentinel ==
    (Corrected /\ call.requested_rate <= 10000) => RateMonotone

C9_Witness ==
    /\ Corrected
    /\ call.credit_score = 51 /\ call.requested_rate = 500
    /\ ret.out = 500
    /\ determine_corrected_interest_rate(50, 500) = 1200

\* C10 as stated: a failure in scoring, rate correction or EMI computation
\* yields a rejection with the internal-error message and the requested rate.
C10_AsStated ==
    (Decided /\ (call.faults # {} \/ call.tenure = 0)) =>
        /\ ~ret.out.approved
        /\ ret.out.message = MsgInternalError
        /\ ret.out.interest_rate = call.requested_interest_rate

\* C10 amended: every failure yields a rejection.  A failure outside the
\* scoring (the EMI computation, the query of the active loans) carries the
\* internal-error message, the requested rate and an EMI of 0.00; a failure
\* inside the scoring is absorbed as score 0, and the decision is then an
\* ordinary rejection at the rate 100.00.
C10_FailureRejects ==
    Decided =>
        /\ (call.faults # {} \/ call.tenure = 0) => ~ret.out.approved
        /\ ("emis" \in call.faults \/ call.tenure = 0) =>
              /\ ret.out.message = MsgInternalError
              /\ ret.out.interest_rate = call.requested_interest_rate
              /\ ret.out.monthly_installment = RatInt(0)
        /\ ("score" \in call.faults /\ call.tenure # 0) =>
              /\ ret.out.credit_score = 0
              /\ ret.out.interest_rate = RateSentinel
              /\ ret.out.message \in {MsgEmiTooHigh, MsgScoreTooLow}

\* the EMI computation fails for a customer whose rate would be corrected
C10_Witness ==
    /\ Decided /\ call.faults = {} /\ call.tenure = 0
    /\ ArgRate # call.requested_interest_rate
    /\ ret.out.message = MsgInternalError
    /\ ret.out.interest_rate = call.requested_interest_rate

----------------------------------------------------------------------------
\* a query raised inside calculate_credit_score: the over-limit return comes
\* before the first query, so nothing is raised for an over-limit customer
ScoreErrorRaised ==
    call.fault /\ call.customer.current_debt <= call.customer.approved_limit

\* C11: an error raised while calculate_credit_score runs makes it return 0,
\* a value and not an exception, and an error event goes to the logger
C11_ErrorYieldsZeroLogged ==
    (Scored /\ ScoreErrorRaised) =>
        /\ ret.out = 0
        /\ \E i \in DOMAIN ret.log : ret.log[i].level = "error"

\* an error is raised for a customer who would otherwise score 100
C11_Witness ==
    /\ Scored /\ ScoreErrorRaised
    /\ call.loans = <<>>
    /\ ret.out = 0
    /\ Len(ret.log) = 1 /\ ret.log[1].level = "error"

----------------------------------------------------------------------------
\* the request of worker w is an eligibility or create_loan request
LoanRequest(w) == req[w].fn \in {"check_loan_eligibility", "create_loan"}

\* non-positive tenure, negative loan amount or negative interest rate
InvalidTerms(r) == r.tenure <= 0 \/ r.loan_amount < 0 \/ r.interest_rate < 0

\* C12: an eligibility or create_loan request with tenure <= 0, a negative
\* loan amount or a negative interest rate is refused as invalid (HTTP 400)
\* before any computation: it gets no decision and writes nothing
C12_InvalidArgument ==
    \A w \in Workers :
        (LoanRequest(w) /\ InvalidTerms(req[w])) =>
            /\ pc[w] \notin {"insert", "save"}
            /\ ~dec[w].done
            /\ resp[w].done => resp[w].status = 400

----------------------------------------------------------------------------
\* check_loan_approval was applied a second time to the same arguments
DecidedAgain == Decided /\ "again" \in DOMAIN ret

\* the tuple (approved, message, corrected rate, EMI) of a decision
OutputTuple(d) == <<d.approved, d.message, d.interest_rate, d.monthly_installment>>

----------------------------------------------------------------------------
\* worker w's create_loan request, approved, inserts its Loan row in this step
InsertStep(w) == pc[w] = "insert" /\ pc'[w] = "save"

\* worker w's create_loan request saves the customer in this step
SaveStep(w) == pc[w] = "save" /\ pc'[w] = "idle"

\* C14: an approved create_loan request adds exactly one Loan row, with
\* status APPROVED, start_date today, emis_paid_on_time 0, the requested
\* amount and tenure, the corrected rate and the decision's EMI as
\* monthly_repayment, and raises the customer's current_debt by loan_amount
C14_ApprovalPersists ==
    [][\A w \in Workers :
          /\ InsertStep(w) =>
                /\ Len(loans') = Len(loans) + 1
                /\ SubSeq(loans', 1, Len(loans)) = loans
                /\ LET new == loans'[Len(loans')]
                       d == dec[w].out
                   IN  /\ d.approved
                       /\ new.customer_id = req[w].customer_id
                       /\ new.status = "APPROVED"
                       /\ new.start_date = today
                       /\ new.emis_paid_on_time = 0
                       /\ new.loan_amount = req[w].loan_amount
                       /\ new.tenure = req[w].tenure
                       /\ new.interest_rate = d.interest_rate
                       /\ RatInt(new.monthly_repayment) = d.monthly_installment
                /\ customers' = customers
          /\ SaveStep(w) =>
                /\ loans' = loans
                /\ customers'[req[w].customer_id].current_debt =
                      customers[req[w].customer_id].current_debt + req[w].loan_amount
      ]_vars

----------------------------------------------------------------------------
\* worker w's create_loan request is answered with a rejection in this step
RejectStep(w) == pc[w] = "decide" /\ pc'[w] = "idle"

\* C15: a rejected create_loan request creates no Loan row, leaves the
\* Customer rows and the existing Loan rows as they are, and is answered
\* with loan_id = null and the rejection message; a Loan row is created
\* only by an approved create_loan request
C15_RejectionWritesNothing ==
    [][/\ \A w \in Workers :
             RejectStep(w) =>
                /\ loans' = loans
                /\ customers' = customers
                /\ ~dec'[w].out.approved
                /\ resp'[w].done
                /\ resp'[w].status = 200
                /\ resp'[w].body = [loan_id |-> NoLoanId,
                                    customer_id |-> req[w].customer_id,
                                    loan_approved |-> FALSE,
                                    message |-> dec'[w].out.message,
                                    monthly_installment |-> dec'[w].out.monthly_installment]
       /\ loans' # loans =>
             \E w \in Workers : InsertStep(w) /\ dec[w].out.approved
      ]_vars

----------------------------------------------------------------------------
\* C16: over every sequence of register_customer, check_loan_eligibility and
\* create_loan requests, no customer's current_debt decreases from one state
\* to the next and none is negative
C16_DebtNeverDecreases ==
    [][\A cid \in DOMAIN customers' :
          /\ customers'[cid].current_debt >= 0
          /\ cid \in DOMAIN customers =>
                customers'[cid].current_debt >= customers[cid].current_debt
      ]_vars

----------------------------------------------------------------------------
Registered == call.fn = "register_customer" /\ ret.done

\* C17: a registration with monthly salary s and no limit supplied stores
\* approved_limit = 36 * s rounded to the nearest multiple of 100000, a tie
\* going up, and current_debt = 0; salaries 100000, 50000 and 25000 give
\* 3600000, 1800000 and 900000
C17_LimitFromSalary ==
    Registered =>
        LET s == call.monthly_salary
            L == ret.out.approved_limit \div 100
        IN  /\ ret.out.approved_limit = 100 * L
            /\ L % 100000 = 0
            /\ 36 * s - 50000 < L /\ L <= 36 * s + 50000
            /\ ret.out.current_debt = 0
            /\ ret.out.monthly_salary = s
            /\ s = 100000 => L = 3600000
            /\ s = 50000 => L = 1800000
            /\ s = 25000 => L = 900000

\* 36 * 12500 = 450000 lies halfway and goes up to 500000
C17_Witness ==
    /\ Registered
    /\ call.monthly_salary = 12500
    /\ ret.out.approved_limit = 50000000
    /\ ret.out.current_debt = 0

----------------------------------------------------------------------------
\* C18: no sequence of check_loan_eligibility and create_loan requests
\* changes a stored customer's approved_limit, except that a save of a
\* customer whose limit is zero recomputes it from the monthly salary
C18_LimitImmutable ==
    [][\A cid \in DOMAIN customers :
          \/ customers'[cid].approved_limit = customers[cid].approved_limit
          \/ /\ customers[cid].approved_limit = 0
             /\ \E w \in Workers : SaveStep(w) /\ req[w].customer_id = cid
             /\ LET u == 36 * customers[cid].monthly_salary
                    L == customers'[cid].approved_limit \div 100
                IN  /\ customers'[cid].approved_limit = 100 * L
                    /\ L % 100000 = 0
                    /\ u - 50000 < L /\ L <= u + 50000
      ]_vars

\* an approved create_loan has re-saved customer 1: the debt moved, the limit did not
C18_Witness ==
    /\ \E w \in Workers :
          /\ req[w].fn = "create_loan" /\ req[w].customer_id = 1
          /\ resp[w].done /\ resp[w].status = 201
    /\ customers[1].current_debt # seed.customers[1].current_debt
    /\ customers[1].approved_limit = seed.customers[1].approved_limit
    /\ customers[1].approved_limit > 0

----------------------------------------------------------------------------
\* the request of worker w names a customer id, or a loan id, that no row has.
\* Rows are never deleted, so it had none when the request was served either.
NamesUnknown(w) ==
    \/ /\ req[w].fn \in {"check_loan_eligibility", "create_loan", "view_customer_loans"}
       /\ req[w].customer_id \notin DOMAIN customers
    \/ /\ req[w].fn = "view_loan"
       /\ req[w].loan_id \notin 1..Len(loans)

\* C19: a check-eligibility, create-loan or view-loans request for an unknown
\* customer id, and a view-loan request for an unknown loan id, is answered
\* with HTTP 404 and starts no write
C19_UnknownIsNotFound ==
    \A w \in Workers :
        NamesUnknown(w) =>
            /\ pc[w] = "idle"
            /\ resp[w].done
            /\ resp[w].status = 404

----------------------------------------------------------------------------
\* the Loan rows with the given ids, by ascending id
RowsAt(ids) ==
    [j \in 1..Cardinality(ids) |->
        loans[CHOOSE i \in ids : Cardinality({k \in ids : k < i}) = j - 1]]

\* worker w's last request was a view_customer_loans of an existing customer
Listed(w) ==
    req[w].fn = "view_customer_loans" /\ resp[w].done /\ resp[w].status = 200

\* C20: view_customer_loans of an existing customer lists, each once, exactly
\* the customer's loans with status APPROVED and end_date after today, and
\* those are the loans whose monthly_repayment the eligibility check sums
C20_ExactlyActiveLoans ==
    \A w \in Workers :
        Listed(w) =>
            LET cid == req[w].customer_id
                body == resp[w].body
                ids == {body[i].loan_id : i \in DOMAIN body}
            IN  /\ Cardinality(ids) = Len(body)
                /\ ids = {i \in 1..Len(loans) :
                             /\ loans[i].customer_id = cid
                             /\ loans[i].status = "APPROVED"
                             /\ DateGT(loans[i].end_date, today)}
                /\ \A i \in DOMAIN body : body[i].status = "APPROVED"
                /\ RowsAt(ids) = current_active_loans(LoansOf(cid), today)

\* one loan is listed; the customer's other loan, APPROVED and ending today, is not
C20_Witness ==
    /\ Listed(1) /\ req[1].customer_id = 1
    /\ Len(loans) = 2 /\ Len(resp[1].body) = 1
    /\ \E i \in 1..2 :
          /\ loans[i].customer_id = 1 /\ loans[i].status = "APPROVED"
          /\ loans[i].end_date = today
          /\ resp[1].body[1].loan_id # i

----------------------------------------------------------------------------
EmiComputed == call.fn = "calculate_emi" /\ ret.done

\* C21: for every positive principal p and positive tenure n,
\* calculate_emi(p, 0, n) returns, without raising, the quotient p / n itself:
\* n times the result is p
C21_ZeroRateIsQuotient ==
    (EmiComputed /\ call.annual_interest_rate = 0
                 /\ call.principal > 0 /\ call.tenure_months > 0) =>
        /\ ret.out.ok
        /\ ret.out.val[1] * call.tenure_months = call.principal * ret.out.val[2]

\* 7.00 over 3 months: 2.333..., not a multiple of 0.01
C21_Witness ==
    /\ EmiComputed
    /\ call.annual_interest_rate = 0 /\ call.principal = 700 /\ call.tenure_months = 3
    /\ ret.out.ok /\ ret.out.val = <<700, 3>>

----------------------------------------------------------------------------
\* worker w's last request was an eligibility check of 500,000.00 at 12% over
\* 24 months by a customer registered with monthly income 100000 who has no loan
ScenarioChecked(w) ==
    /\ req[w].fn = "check_loan_eligibility" /\ resp[w].done
    /\ req[w].loan_amount = 50000000 /\ req[w].interest_rate = 1200 /\ req[w].tenure = 24
    /\ req[w].customer_id \in DOMAIN customers
    /\ customers[req[w].customer_id].monthly_salary = 100000
    /\ LoansOf(req[w].customer_id) = <<>>

\* C22: a customer registered with monthly income 100000 and no loans has
\* approved_limit 3,600,000; the customer's request for 500,000 at 12% over
\* 24 months gets score 100, the rate unchanged at 12.00, an EMI of
\* 23,536.74, which is at most 50,000, and is approved
C22_Scenario ==
    \A w \in Workers :
        ScenarioChecked(w) =>
            LET c == customers[req[w].customer_id]
            IN  /\ c.approved_limit = 360000000
                /\ calculate_credit_score(c, <<>>, today, FALSE) = 100
                /\ resp[w].status = 200
                /\ resp[w].body.approval
                /\ resp[w].body.corrected_interest_rate = 1200
                /\ resp[w].body.interest_rate = 1200
                /\ resp[w].body.monthly_installment = <<2353674, 1>>
                /\ resp[w].body.monthly_installment[1] <= 5000000

\* the customer was registered by the request before the check, with the
\* limit 3,600,000.00, and the check answered with an approval
C22_Witness ==
    /\ served = 2
    /\ ScenarioChecked(1)
    /\ customers[1] = CustomerRow(100000, 360000000, 0)
    /\ resp[1].status = 200 /\ resp[1].body.approval
    /\ resp[1].body.monthly_installment = <<2353674, 1>>

----------------------------------------------------------------------------
\* worker w's create_loan request gets its decision in this step
DecideStep(w) == pc[w] = "decide" /\ pc'[w] # "decide"

\* worker w's create_loan request, approved, computes the dates and creates
\* its Loan row in this step, or fails to
InsertAttempt(w) == pc[w] = "insert" /\ pc'[w] # "insert"

\* an eligibility check of the request's customer and terms, made on the
\* tables and the date as they are, answers 200 with approval = true
EligibilityApproves(r) ==
    /\ EligibilityResponse(r, {}).status = 200
    /\ EligibilityResponse(r, {}).body.approval

\* the decision of worker w's create_loan request is one that an eligibility
\* check answers with approval = true: approved, the EMI a multiple of 0.01
EligibleDecision(w) ==
    /\ dec[w].done /\ dec[w].out.approved
    /\ HasTwoPlaces(dec[w].out.monthly_installment)

\* C23: when an eligibility check of a customer and terms answers approval =
\* true, a create_loan request with the same customer and terms, served on
\* the same customer record, loans and date, is approved with the same
\* monthly_installment, creates its loan and is answered 201 with a loan_id
C23_CreateFollowsEligibility ==
    [][\A w \in Workers :
          /\ (/\ DecideStep(w)
              /\ local[w].customer = customers[req[w].customer_id]
              /\ EligibilityApproves(req[w])) =>
                /\ pc'[w] = "insert"
                /\ dec'[w].out.approved
                /\ dec'[w].out.monthly_installment =
                      EligibilityResponse(req[w], {}).body.monthly_installment
          /\ (InsertAttempt(w) /\ EligibleDecision(w)) =>
                /\ pc'[w] = "save"
                /\ Len(loans') = Len(loans) + 1
          /\ (SaveStep(w) /\ EligibleDecision(w)) =>
                /\ resp'[w].status = 201
                /\ resp'[w].body.loan_id # NoLoanId
                /\ resp'[w].body.monthly_installment = dec[w].out.monthly_installment
      ]_vars

----------------------------------------------------------------------------
\* the score was computed without an error for a customer within the limit
\* who has a loan, whose on-time ratio is at least 0.9 (or who has no expected
\* EMIs) and whose loan volume is at most 0.8 of the limit (or who has no limit)
PenaltyFreeHistory ==
    /\ Scored /\ ~call.fault
    /\ call.customer.current_debt <= call.customer.approved_limit
    /\ Len(call.loans) >= 1
    /\ \/ total_expected_emis(call.loans, call.now) <= 0
       \/ 10 * total_emis_paid_on_time(call.loans) >= 9 * total_expected_emis(call.loans, call.now)
    /\ \/ call.customer.approved_limit <= 0
       \/ 5 * total_approved_volume(call.loans) <= 4 * call.customer.approved_limit

\* C24: for such a customer calculate_credit_score returns exactly
\* max(0, 100 - 3 * max(0, n - 5) - 5 * max(0, y - 2)), n the number of the
\* customer's loans and y the number of them that start in the current year
C24_CountAndYearPenalties ==
    PenaltyFreeHistory =>
        LET n == Len(call.loans)
            y == Cardinality({i \in 1..n : call.loans[i].start_date[1] = call.now[1]})
        IN  ret.out = Max(0, 100 - 3 * Max(0, n - 5) - 5 * Max(0, y - 2))

\* seven loans, four of them of this year: 100 - 6 - 10
C24_Witness ==
    /\ PenaltyFreeHistory
    /\ Len(call.loans) = 7
    /\ ret.out = 84

\* eighteen loans of this year: 100 - 39 - 80 is below zero
C24_WitnessClamped ==
    /\ PenaltyFreeHistory
    /\ Len(call.loans) = 18
    /\ ret.out = 0

----------------------------------------------------------------------------
\* the expected EMIs of the i-th loan of the call as the claim words them:
\* the tenure of a closed loan, and for an active loan the smaller of the
\* tenure and the calendar months since the start
ClaimedExpected(i) ==
    LET l == call.loans[i]
        months == (call.now[1] * 12 + call.now[2]) - (l.start_date[1] * 12 + l.start_date[2])
    IN  IF l.status # "APPROVED" \/ ~DateGT(l.end_date, call.now) THEN l.tenure
        ELSE IF months < l.tenure THEN months ELSE l.tenure

ClaimedE == SeqSum([i \in 1..Len(call.loans) |-> ClaimedExpected(i)])

ClaimedP == SeqSum([i \in 1..Len(call.loans) |-> call.loans[i].emis_paid_on_time])

\* the on-time penalty is due: E > 0 and P / E < 0.9
ClaimedOnTimeDue == ClaimedE > 0 /\ 10 * ClaimedP < 9 * ClaimedE

\* 100 less the on-time penalty when it is due, less the two counting penalties
ClaimedRawScore ==
    LET n == Len(call.loans)
        y == Cardinality({i \in 1..n : call.loans[i].start_date[1] = call.now[1]})
        k == 100 - 3 * Max(0, n - 5) - 5 * Max(0, y - 2)
    IN  IF ClaimedOnTimeDue
        THEN Rat(k * ClaimedE - 30 * (ClaimedE - ClaimedP), ClaimedE)
        ELSE RatInt(k)

\* a score computed from loans, without an error, for a customer within the limit
ScoredFromLoans ==
    /\ Scored /\ ~call.fault
    /\ call.customer.current_debt <= call.customer.approved_limit
    /\ Len(call.loans) >= 1

\* no utilization penalty is due
NoUtilizationPenalty ==
    \/ call.customer.approved_limit <= 0
    \/ 5 * total_approved_volume(call.loans) <= 4 * call.customer.approved_limit

\* the loans of the call, the first k of them moved to the end
Rotated(k) ==
    [i \in 1..Len(call.loans) |-> call.loans[((i + k - 1) % Len(call.loans)) + 1]]

\* the loans of the call in the opposite order
Reversed == [i \in 1..Len(call.loans) |-> call.loans[Len(call.loans) + 1 - i]]

\* C25: the expected EMIs of a loan are its tenure when it is closed and
\* min(tenure, calendar months since the start) when it is active; the
\* on-time penalty (1 - P/E) * 30 is subtracted if and only if E > 0 and
\* P/E < 0.9; the score is truncated to an integer (here where no utilization
\* penalty is due, so that the value is the exact one); and the result does
\* not depend on the order of the loans
C25_OnTimePenalty ==
    ScoredFromLoans =>
        /\ total_expected_emis(call.loans, call.now) = ClaimedE
        /\ NoUtilizationPenalty =>
              ret.out = Max(0, Min(100, RatTrunc(ClaimedRawScore)))
        /\ \A k \in 1..Len(call.loans) :
              calculate_credit_score(call.customer, Rotated(k), call.now, FALSE) = ret.out
        /\ calculate_credit_score(call.customer, Reversed, call.now, FALSE) = ret.out

\* the penalty is due, an active loan counts fewer months than its tenure, and
\* the value before int() lies half or more above the score returned
C25_Witness ==
    /\ ScoredFromLoans /\ NoUtilizationPenalty
    /\ ClaimedOnTimeDue
    /\ \E i \in 1..Len(call.loans) :
          /\ IsActive(call.loans[i], call.now)
          /\ ClaimedExpected(i) < call.loans[i].tenure
    /\ Len(call.loans) >= 2
    /\ ret.out \in 1..99
    /\ ~RatGT(Rat(2 * ret.out + 1, 2), ClaimedRawScore)

----------------------------------------------------------------------------
\* the sum of monthly_repayment over the loans of a table that belong to the
\* customer, have the status APPROVED and end after the day
ActiveRepayments(table, cid, day) ==
    SeqSum([i \in 1..Len(table) |->
               IF /\ table[i].customer_id = cid
                  /\ table[i].status = "APPROVED"
                  /\ DateGT(table[i].end_date, day)
               THEN table[i].monthly_repayment ELSE 0])

\* C26: with the salary and the date fixed, create_loan requests served one
\* after the other keep the sum of monthly_repayment over a customer's active
\* loans at or below 50% of the monthly salary, if it was so at the start
\* (the repayments are in hundredths, the salary is in units)
C26_EmiSumWithinHalfSalary ==
    \A cid \in DOMAIN seed.customers :
        ActiveRepayments(seed.loans, cid, today) <= 50 * seed.customers[cid].monthly_salary
            => /\ customers[cid].monthly_salary = seed.customers[cid].monthly_salary
               /\ ActiveRepayments(loans, cid, today) <= 50 * customers[cid].monthly_salary

\* two loans were created and the sum has come to exactly half of the salary
C26_Witness ==
    /\ Len(loans) = Len(seed.loans) + 2
    /\ \A w \in Workers : pc[w] = "idle"
    /\ ActiveRepayments(seed.loans, 1, today) > 0
    /\ ActiveRepayments(loans, 1, today) = 50 * customers[1].monthly_salary

\* the EMI check has refused a request that the limit would have allowed
C26_WitnessRefused ==
    /\ Len(loans) = Len(seed.loans) + 1
    /\ \E w \in Workers :
          /\ pc[w] = "idle" /\ resp[w].done /\ req[w].fn = "create_loan"
          /\ resp[w].status = 200
          /\ resp[w].body.message = MsgEmiTooHigh
          /\ req[w].loan_amount <= customers[1].approved_limit - customers[1].current_debt

----------------------------------------------------------------------------
\* every worker has answered its request
AllCompleted == \A w \in Workers : pc[w] = "idle"

\* C27: no update of current_debt is lost: once all create_loan requests have
\* completed, under every interleaving, a customer's current_debt is its initial
\* value plus the loan_amount of every Loan those requests created
C27_NoLostUpdate ==
    AllCompleted =>
        \A cid \in DOMAIN seed.customers :
            customers[cid].current_debt =
                seed.customers[cid].current_debt + CreatedVolume(cid)

----------------------------------------------------------------------------
EndDated == call.fn = "loan_end_date" /\ ret.done

\* C28: a Loan created by create_loan with tenure >= 1 has its end_date
\* strictly after its start_date, whatever the start day and the month length,
\* so that it is active (end_date in the future) on the day it is created
C28_EndAfterStart ==
    (EndDated /\ call.tenure >= 1) => DateGT(ret.out, call.start_date)

----------------------------------------------------------------------------
\* the credit score of a customer on the tables as they are
ScoreNow(cid) == calculate_credit_score(customers[cid], LoansOf(cid), today, FALSE)

\* the credit score of a customer on the tables as the step leaves them
ScoreNext(cid) ==
    calculate_credit_score(customers'[cid],
                           SelectSeq(loans', LAMBDA l : l.customer_id = cid), today', FALSE)

\* C29: on a fixed date, with create_loan requests served one after the
\* other, the credit score after a request is never higher than the score
\* the request computed before it, and a rejected request leaves it unchanged
C29_ScoreNeverRises ==
    [][\A w \in Workers :
          /\ SaveStep(w) =>
                ScoreNext(req[w].customer_id) <= dec[w].out.credit_score
          /\ RejectStep(w) =>
                /\ dec'[w].out.credit_score = ScoreNow(req[w].customer_id)
                /\ ScoreNext(req[w].customer_id) = ScoreNow(req[w].customer_id)
      ]_vars

----------------------------------------------------------------------------
\* worker w, the first idle one, serves a check_loan_eligibility request in
\* this step
EligibilityStep(w) ==
    /\ pc[w] = "idle"
    /\ \A v \in Workers : v < w => pc[v] # "idle"
    /\ served' = served + 1
    /\ req'[w].fn = "check_loan_eligibility"

\* C30: check_loan_eligibility is read-only: whatever it answers, it creates
\* no Loan, changes no customer and no existing loan, and leaves every
\* create_loan request in flight where it was, with what it has read and decided
C30_EligibilityReadOnly ==
    [][\A w \in Workers :
          EligibilityStep(w) =>
              /\ loans' = loans
              /\ customers' = customers
              /\ today' = today
              /\ pc' = pc
              /\ local' = local
              /\ \A v \in Workers \ {w} :
                    req'[v] = req[v] /\ dec'[v] = dec[v] /\ resp'[v] = resp[v]
      ]_vars

\* an eligibility check was answered with an approval while a create_loan
\* request, approved, had not yet saved the customer
C30_Witness ==
    /\ req[2].fn = "check_loan_eligibility"
    /\ resp[2].done /\ resp[2].status = 200 /\ resp[2].body.approval
    /\ req[1].fn = "create_loan" /\ pc[1] = "save"

\* an eligibility check with invalid data was answered
C30_WitnessInvalid ==
    \E w \in Workers :
        /\ req[w].fn = "check_loan_eligibility"
        /\ resp[w].done /\ resp[w].status = 400
        /\ loans = seed.loans /\ customers = seed.customers

\* an eligibility check for an unknown customer was answered
C30_WitnessUnknown ==
    \E w \in Workers :
        /\ req[w].fn = "check_loan_eligibility"
        /\ req[w].customer_id \notin DOMAIN customers
        /\ resp[w].done /\ resp[w].status = 500

====
